---- MODULE Spec2Model ----
(***************************************************************************)
(* Model of polyply's residue-pattern parser (big_smile_parsing.py), the   *)
(* dihedral wildcard matcher and the Topology container (topology.py).     *)
(*                                                                         *)
(* The specifications share the variables:                                 *)
(*   SpecParse  res_pattern_to_meta_mol on a pattern string                *)
(*   SpecDih    match_dihedral_interaction_types on atoms and a type table *)
(*   SpecTop    Topology.append_molecules / Topology.merge call sequences  *)
(*   SpecOrder  two topologies merged into copies of a third, in both      *)
(*              orders                                                     *)
(*   SpecPrep   Topology.preprocess: gen_pairs, replace_defines,           *)
(*              gen_bonded_interactions, convert_nonbond_to_sig_eps        *)
(*   SpecTok    tokenize_big_smile on a BigSmile string                    *)
(* Each one keeps the variables of the others at their idle values.        *)
(***************************************************************************)
EXTENDS Integers, Sequences, FiniteSets, TLC

VARIABLES
    \* ---- res_pattern_to_meta_mol ----
    items,          \* the token structure the pattern string was written from
    pattern,        \* the argument: a string, as a sequence of characters
    pc,             \* position in the function: scan / add / replay / done / error
    pos,            \* where re.finditer resumes its search (0-based)
    tok,            \* number of matches the loop of line 68 has taken so far
    stop,           \* match.span()[1] of the current match (0-based, exclusive)
    nodes,          \* meta_mol.nodes: node id -> resname
    edges,          \* meta_mol.edges: set of unordered pairs {a, b}
    current,        \* next node id
    branch_anchor,
    prev_node,
    branching,
    recipie,        \* sequence of <<resname, n_mon>>
    resname,
    n_left,         \* iterations left of the running `for _ in range(0, n_mon)`
    rep_left,       \* iterations left of the replay loop of line 102
    bdx,            \* index into recipie of the replay (0-based)
    anchor,         \* the local `anchor` of line 105
    perr,           \* exception raised by the parser, or "none"
    \* ---- match_dihedral_interaction_types ----
    atoms,          \* the 4-tuple of atom types
    interaction_dict, \* the keys of the type table
    dih_pc,         \* idle / call / done
    dih_match,      \* the returned key, or None
    \* ---- Topology ----
    top,            \* the fields of self
    added_as,       \* history: the molname each molecule of self was added under
    top_pc,         \* idle / ready
    last_op,        \* the last call made on self: none / append / merge
    other_top,      \* the argument of the last merge call
    check_duplicates, \* the flag of the last merge call
    top_err,        \* the exception the last call raised, or "none"
    err_msg,        \* what the MergeError message names: <<category, key>>
    ops,            \* number of calls made so far
    \* ---- merge order ----
    top_start,      \* the topology T both copies start from
    first_top,      \* A, the topology merged first into top (other_top is B)
    top_ba,         \* the copy of T that B is merged into first, then A
    err_ba,         \* the exception the merges into top_ba raised, or "none"
    \* ---- preprocess ----
    blocks,         \* self.force_field.blocks: a sequence of blocks
    \* ---- tokenize_big_smile ----
    big_smile,      \* the argument: a string, as a sequence of characters
    tk_pos,         \* number of characters smile_iter has yielded so far
    smile,          \* the cleaned string built so far
    node_count,
    tk_prev_node,   \* the local prev_node of tokenize_big_smile
    tk_anchor,      \* the local anchor of tokenize_big_smile, None while unbound
    bonding_descrpt, \* dict: node -> bonding descriptor
    tk_pc,          \* idle / loop / done / error
    tk_err,         \* the exception raised by the tokenizer, or "none"
    ptr_trace       \* history: prev_node as it was when each character was yielded

parseVars == <<items, pattern, pc, pos, tok, stop, nodes, edges, current, branch_anchor,
               prev_node, branching, recipie, resname, n_left, rep_left, bdx,
               anchor, perr>>
dihVars == <<atoms, interaction_dict, dih_pc, dih_match>>
topVars == <<top, added_as, top_pc, last_op, other_top, check_duplicates, top_err,
             err_msg, ops>>
ordVars == <<top_start, first_top, top_ba, err_ba>>
prepVars == <<blocks>>
tkVars == <<big_smile, tk_pos, smile, node_count, tk_prev_node, tk_anchor,
            bonding_descrpt, tk_pc, tk_err, ptr_trace>>
extVars == <<ordVars, prepVars, tkVars>>
vars == <<parseVars, dihVars, topVars, extVars>>

\* Python's None where a node id is expected, and where a key tuple is expected
None == -1
NoKey == << >>

(***************************************************************************)
(* Python string primitives, on sequences of one-character strings.        *)
(* Indices are Python's (0-based); a negative index counts from the end.   *)
(***************************************************************************)
Digits == {"0", "1", "2", "3", "4", "5", "6", "7", "8", "9"}

DigitVal(ch) ==
    CASE ch = "0" -> 0 [] ch = "1" -> 1 [] ch = "2" -> 2 [] ch = "3" -> 3
      [] ch = "4" -> 4 [] ch = "5" -> 5 [] ch = "6" -> 6 [] ch = "7" -> 7
      [] ch = "8" -> 8 [] ch = "9" -> 9

\* s[k]
PyAt(s, k) == IF k < 0 THEN s[Len(s) + k + 1] ELSE s[k + 1]

\* s.find(ch, from): lowest index >= from holding ch, -1 when there is none
PyFind(s, ch, from) ==
    LET hits == {k \in from..(Len(s) - 1) : s[k + 1] = ch}
    IN  IF hits = {} THEN -1 ELSE CHOOSE k \in hits : \A j \in hits : k <= j

\* s[a:b] for a >= 0; a negative b counts from the end
PySlice(s, a, b) ==
    LET b1 == IF b < 0 THEN Len(s) + b ELSE b
        b2 == IF b1 > Len(s) THEN Len(s) ELSE IF b1 < 0 THEN 0 ELSE b1
    IN  IF a >= b2 THEN << >> ELSE SubSeq(s, a + 1, b2)

\* int(t) succeeds on a non-empty string of decimal digits
IsInt(t) == Len(t) > 0 /\ \A i \in 1..Len(t) : t[i] \in Digits

RECURSIVE PyInt(_)
PyInt(t) ==
    IF Len(t) = 0 THEN 0
    ELSE 10 * PyInt(SubSeq(t, 1, Len(t) - 1)) + DigitVal(t[Len(t)])

\* re.finditer(PATTERNS['place_holder'], pattern): the next match of \[\#.*?\]
\* at or after `from`, as <<start, stop>>; <<-1, -1>> when there is none
NextMatch(s, from) ==
    LET starts == {k \in from..(Len(s) - 3) :
                     /\ s[k + 1] = "["
                     /\ s[k + 2] = "#"
                     /\ PyFind(s, "]", k + 2) >= 0}
    IN  IF starts = {} THEN <<-1, -1>>
        ELSE LET st == CHOOSE k \in starts : \A j \in starts : k <= j
             IN  <<st, PyFind(s, "]", st + 2) + 1>>


(***************************************************************************)
(* The pattern strings the parser is run on.  A pattern is written from a  *)
(* sequence of residue tokens; a token may be preceded by "(", followed by *)
(* "|<count>", and followed by ")" or ")|<count>".                         *)
(***************************************************************************)
MaxTokens == 3

NameList == << <<"P","M","A">>, <<"P","E","O">>, <<"P","S">>, <<"O","H">> >>

TokenName(i) == NameList[((i - 1) % Len(NameList)) + 1]

\* the repeat counts written after a residue and after a branch close;
\* NoCount: no "|<count>" is written
NoCount == None
ResCounts == {NoCount, 0, 11}
BranchCounts == {NoCount, 0, 3}

\* a count after the branch close is written only when the token closes a branch
Items ==
    {it \in [open : BOOLEAN, cnt : ResCounts, close : BOOLEAN, bcnt : BranchCounts] :
        it.close \/ it.bcnt = NoCount}

DigitChar(d) ==
    CASE d = 0 -> "0" [] d = 1 -> "1" [] d = 2 -> "2" [] d = 3 -> "3"
      [] d = 4 -> "4" [] d = 5 -> "5" [] d = 6 -> "6" [] d = 7 -> "7"
      [] d = 8 -> "8" [] d = 9 -> "9"

\* the decimal numeral of n
RECURSIVE Dec(_)
Dec(n) == IF n < 10 THEN <<DigitChar(n)>> ELSE Dec(n \div 10) \o <<DigitChar(n % 10)>>

Suffix(c) == IF c = NoCount THEN << >> ELSE <<"|">> \o Dec(c)

RenderItem(it, i) ==
    (IF it.open THEN <<"(">> ELSE << >>)
    \o <<"[", "#">> \o TokenName(i) \o <<"]">>
    \o Suffix(it.cnt)
    \o (IF it.close THEN <<")">> \o Suffix(it.bcnt) ELSE << >>)

RECURSIVE RenderItems(_, _)
RenderItems(its, n) ==
    IF n = 0 THEN << >> ELSE RenderItems(its, n - 1) \o RenderItem(its[n], n)

Render(its) == <<"{">> \o RenderItems(its, Len(its)) \o <<"}">>

(***************************************************************************)
(* MetaMolecule.add_monomer(current, resname, connection): adds the node   *)
(* with its resname and the edges of connection.                           *)
(***************************************************************************)
AddNode(ns, id, name) ==
    [n \in (DOMAIN ns) \cup {id} |-> IF n = id THEN name ELSE ns[n]]

AddEdges(es, connection) == es \cup {{c[1], c[2]} : c \in connection}

(***************************************************************************)
(* res_pattern_to_meta_mol                                                 *)
(***************************************************************************)
EmptyNodes == [n \in {} |-> << >>]

ParseIdle ==
    /\ items = << >> /\ pattern = << >> /\ pc = "idle" /\ pos = 0 /\ tok = 0
    /\ stop = 0
    /\ nodes = EmptyNodes /\ edges = {} /\ current = 0 /\ branch_anchor = 0
    /\ prev_node = None /\ branching = FALSE /\ recipie = << >>
    /\ resname = << >> /\ n_left = 0 /\ rep_left = 0 /\ bdx = 0 /\ anchor = None
    /\ perr = "none"

\* lines 63-67
ParseInit ==
    /\ \E n \in 1..MaxTokens : items \in [1..n -> Items]
    /\ pattern = Render(items)
    /\ pc = "scan" /\ pos = 0 /\ tok = 0 /\ stop = 0
    /\ nodes = EmptyNodes /\ edges = {}
    /\ current = 0
    /\ branch_anchor = 0
    /\ prev_node = None
    /\ branching = FALSE
    /\ recipie = << >> /\ resname = << >> /\ n_left = 0 /\ rep_left = 0
    /\ bdx = 0 /\ anchor = None /\ perr = "none"

Raise(kind) ==
    /\ pc' = "error"
    /\ perr' = kind

\* the text of the count after a residue token: pattern[stop+1:pattern.find('[', stop)]
ResCountText(s, sp) == PySlice(s, sp + 1, PyFind(s, "[", sp))

\* the text of the count after a branch close: pattern[stop+2:pattern.find('[', stop)]
BranchCountText(s, sp) == PySlice(s, sp + 2, PyFind(s, "[", sp))

\* HasCount reading one character too far
HasCount_Shifted(s, sp) == sp + 1 < Len(s) /\ PyAt(s, sp + 1) = "|"

HasCount(s, sp) == sp < Len(s) /\ PyAt(s, sp) = "|"

OpensBranch(s, st) == PyAt(s, st - 1) = "("

\* lines 68-83: the next match of the loop, up to the recipe bookkeeping
NextToken ==
    /\ pc = "scan"
    /\ NextMatch(pattern, pos)[1] >= 0
    /\ LET m == NextMatch(pattern, pos)
           st == m[1]
           sp == m[2]
           opens == OpensBranch(pattern, st)
           name == PySlice(SubSeq(pattern, st + 1, sp), 2, -1)
           txt == ResCountText(pattern, sp)
           n_mon == IF HasCount(pattern, sp) THEN PyInt(txt) ELSE 1
           seeded == IF opens THEN << <<nodes[prev_node], 1>> >> ELSE recipie
           nowBranching == opens \/ branching
       IN  /\ pos' = sp
           /\ tok' = tok + 1
           /\ stop' = sp
           /\ IF opens /\ prev_node \notin DOMAIN nodes
              THEN \* line 74: meta_mol.nodes[None]
                   /\ Raise("KeyError")
                   /\ branching' = TRUE
                   /\ branch_anchor' = prev_node
                   /\ UNCHANGED <<recipie, resname, n_left>>
              ELSE IF HasCount(pattern, sp) /\ ~IsInt(txt)
              THEN \* line 76: int() of a text that is no number
                   /\ Raise("ValueError")
                   /\ branching' = nowBranching
                   /\ branch_anchor' = IF opens THEN prev_node ELSE branch_anchor
                   /\ recipie' = seeded
                   /\ UNCHANGED <<resname, n_left>>
              ELSE /\ pc' = "add"
                   /\ perr' = perr
                   /\ branching' = nowBranching
                   /\ branch_anchor' = IF opens THEN prev_node ELSE branch_anchor
                   /\ resname' = name
                   /\ recipie' = IF nowBranching
                                 THEN Append(seeded, <<name, n_mon>>)
                                 ELSE seeded
                   /\ n_left' = n_mon
    /\ UNCHANGED <<items, pattern, nodes, edges, current, prev_node, rep_left, bdx,
                   anchor>>
    /\ UNCHANGED <<atoms, interaction_dict, dih_pc, dih_match>>
    /\ UNCHANGED extVars
    /\ UNCHANGED <<top, added_as, top_pc, last_op, other_top, check_duplicates,
                   top_err, err_msg, ops>>

\* Connection without the edge to the previous node
Connection_Unlinked(prev, cur) == {}

\* lines 86-89: the edge list handed to add_monomer
Connection(prev, cur) == IF prev # None THEN {<<prev, cur>>} ELSE {}

\* lines 87-94: one iteration of the loop that adds the residue
AddResidue ==
    /\ pc = "add"
    /\ n_left > 0
    /\ nodes' = AddNode(nodes, current, resname)
    /\ edges' = AddEdges(edges, Connection(prev_node, current))
    /\ prev_node' = current
    /\ current' = current + 1
    /\ n_left' = n_left - 1
    /\ UNCHANGED <<items, pattern, pc, pos, tok, stop, branch_anchor, branching, recipie,
                   resname, rep_left, bdx, anchor, perr>>
    /\ UNCHANGED <<atoms, interaction_dict, dih_pc, dih_match>>
    /\ UNCHANGED extVars
    /\ UNCHANGED <<top, added_as, top_pc, last_op, other_top, check_duplicates,
                   top_err, err_msg, ops>>

\* ClosesBranch never seeing the ")"
ClosesBranch_Never(s, sp, br) == FALSE

ClosesBranch(s, sp, br) == sp < Len(s) /\ PyAt(s, sp) = ")" /\ br

\* HasBranchCount reading the branch close itself
HasBranchCount_AtClose(s, sp) == sp < Len(s) /\ PyAt(s, sp) = "|"

HasBranchCount(s, sp) == sp + 1 < Len(s) /\ PyAt(s, sp + 1) = "|"

\* lines 97-102: the residue is added; close the branch if the match ends one
BranchClose ==
    /\ pc = "add"
    /\ n_left = 0
    /\ IF ClosesBranch(pattern, stop, branching)
       THEN /\ branching' = FALSE
            /\ prev_node' = branch_anchor
            /\ IF HasBranchCount(pattern, stop)
               THEN LET txt == BranchCountText(pattern, stop)
                    IN  IF IsInt(txt)
                        THEN /\ rep_left' = PyInt(txt)
                             /\ bdx' = 0
                             /\ pc' = IF PyInt(txt) > 0 THEN "replay" ELSE "scan"
                             /\ n_left' = 0
                             /\ perr' = perr
                        ELSE /\ Raise("ValueError")
                             /\ UNCHANGED <<rep_left, bdx, n_left>>
               ELSE /\ pc' = "scan"
                    /\ UNCHANGED <<rep_left, bdx, n_left, perr>>
       ELSE /\ pc' = "scan"
            /\ UNCHANGED <<branching, prev_node, rep_left, bdx, n_left, perr>>
    /\ UNCHANGED <<items, pattern, pos, tok, stop, nodes, edges, current, branch_anchor,
                   recipie, resname, anchor>>
    /\ UNCHANGED <<atoms, interaction_dict, dih_pc, dih_match>>
    /\ UNCHANGED extVars
    /\ UNCHANGED <<top, added_as, top_pc, last_op, other_top, check_duplicates,
                   top_err, err_msg, ops>>

\* ReplayAnchor taking every entry of the recipe for the first
ReplayAnchor_EveryEntry(b, cur, anc) == cur

\* lines 104-105: anchor is the first node of the replay
ReplayAnchor(b, cur, anc) == IF b = 0 THEN cur ELSE anc

\* lines 102-105 and 113: take the next entry of the recipe, or end the replay
ReplayNext ==
    /\ pc = "replay"
    /\ n_left = 0
    /\ IF bdx < Len(recipie)
       THEN /\ resname' = recipie[bdx + 1][1]
            /\ n_left' = recipie[bdx + 1][2]
            /\ anchor' = ReplayAnchor(bdx, current, anchor)
            /\ bdx' = bdx + 1
            /\ UNCHANGED <<pc, prev_node, rep_left>>
       ELSE /\ prev_node' = anchor
            /\ rep_left' = rep_left - 1
            /\ bdx' = 0
            /\ pc' = IF rep_left - 1 > 0 THEN "replay" ELSE "scan"
            /\ UNCHANGED <<resname, n_left, anchor>>
    /\ UNCHANGED <<items, pattern, pos, tok, stop, nodes, edges, current, branch_anchor,
                   branching, recipie, perr>>
    /\ UNCHANGED <<atoms, interaction_dict, dih_pc, dih_match>>
    /\ UNCHANGED extVars
    /\ UNCHANGED <<top, added_as, top_pc, last_op, other_top, check_duplicates,
                   top_err, err_msg, ops>>

\* lines 106-112: one iteration of the loop that adds a replayed residue
ReplayAdd ==
    /\ pc = "replay"
    /\ n_left > 0
    /\ nodes' = AddNode(nodes, current, resname)
    /\ edges' = AddEdges(edges, {<<prev_node, current>>})
    /\ prev_node' = current
    /\ current' = current + 1
    /\ n_left' = n_left - 1
    /\ UNCHANGED <<items, pattern, pc, pos, tok, stop, branch_anchor, branching, recipie,
                   resname, rep_left, bdx, anchor, perr>>
    /\ UNCHANGED <<atoms, interaction_dict, dih_pc, dih_match>>
    /\ UNCHANGED extVars
    /\ UNCHANGED <<top, added_as, top_pc, last_op, other_top, check_duplicates,
                   top_err, err_msg, ops>>

\* line 114: no match is left, the graph is returned
Finish ==
    /\ pc = "scan"
    /\ NextMatch(pattern, pos)[1] < 0
    /\ pc' = "done"
    /\ UNCHANGED <<items, pattern, pos, tok, stop, nodes, edges, current, branch_anchor,
                   prev_node, branching, recipie, resname, n_left, rep_left, bdx,
                   anchor, perr>>
    /\ UNCHANGED <<atoms, interaction_dict, dih_pc, dih_match>>
    /\ UNCHANGED extVars
    /\ UNCHANGED <<top, added_as, top_pc, last_op, other_top, check_duplicates,
                   top_err, err_msg, ops>>

DihIdle ==
    /\ atoms = << >> /\ interaction_dict = {} /\ dih_pc = "idle" /\ dih_match = NoKey

TopIdle ==
    /\ top = << >> /\ added_as = << >> /\ top_pc = "idle" /\ last_op = "none"
    /\ other_top = << >> /\ check_duplicates = TRUE /\ top_err = "none"
    /\ err_msg = << >> /\ ops = 0

OrdIdle ==
    /\ top_start = << >> /\ first_top = << >> /\ top_ba = << >> /\ err_ba = "none"

PrepIdle == blocks = << >>

TkIdle ==
    /\ big_smile = << >> /\ tk_pos = 0 /\ smile = << >> /\ node_count = 0
    /\ tk_prev_node = 0 /\ tk_anchor = None /\ bonding_descrpt = << >>
    /\ tk_pc = "idle" /\ tk_err = "none" /\ ptr_trace = << >>

ExtIdle == OrdIdle /\ PrepIdle /\ TkIdle

InitParse == ParseInit /\ DihIdle /\ TopIdle /\ ExtIdle

NextParse ==
    \/ NextToken
    \/ AddResidue
    \/ BranchClose
    \/ ReplayNext
    \/ ReplayAdd
    \/ Finish

SpecParse == InitParse /\ [][NextParse]_vars


(***************************************************************************)
(* match_dihedral_interaction_types                                        *)
(***************************************************************************)
AtomTypes == {"C", "N"}

\* an 'X' entry of a pattern, where the other entries are indices into atoms
PX == -1

patterns ==
    << <<0, 1, 2, 3>>,
       <<PX, 1, 2, 3>>,
       <<0, PX, 2, 3>>,
       <<0, 1, PX, 3>>,
       <<PX, 1, 2, PX>>,
       <<PX, PX, 2, 3>>,
       <<0, PX, PX, 3>>,
       <<PX, 1, PX, 3>>,
       <<PX, PX, PX, 3>> >>

\* key[::-1]
Reversed(key) == [i \in 1..Len(key) |-> key[Len(key) + 1 - i]]

wildcard_dih(atms, idxs) ==
    [i \in 1..Len(idxs) |-> IF idxs[i] # PX THEN atms[idxs[i] + 1] ELSE "X"]

\* the loop of lines 184-191, from the i-th pattern on
RECURSIVE MatchFrom(_, _, _)
MatchFrom(atms, dict, i) ==
    IF i > Len(patterns) THEN NoKey
    ELSE LET key == wildcard_dih(atms, patterns[i])
         IN  IF key \in dict THEN key
             ELSE IF Reversed(key) \in dict THEN Reversed(key)
             ELSE MatchFrom(atms, dict, i + 1)

match_dihedral_interaction_types(atms, dict) == MatchFrom(atms, dict, 1)

\* the type tables the matcher is run on: up to MaxKeys keys of atom types and 'X'
MaxKeys == 2

TypeKeys == [1..4 -> AtomTypes \cup {"X"}]

RECURSIVE TablesUpTo(_)
TablesUpTo(n) ==
    IF n = 0 THEN {{}}
    ELSE LET smaller == TablesUpTo(n - 1)
         IN  smaller \cup {t \cup {k} : t \in smaller, k \in TypeKeys}

DihInit ==
    /\ atoms \in [1..4 -> AtomTypes]
    /\ interaction_dict \in TablesUpTo(MaxKeys)
    /\ dih_pc = "call"
    /\ dih_match = NoKey

MatchDihedral ==
    /\ dih_pc = "call"
    /\ dih_match' = match_dihedral_interaction_types(atoms, interaction_dict)
    /\ dih_pc' = "done"
    /\ UNCHANGED <<atoms, interaction_dict>>
    /\ UNCHANGED parseVars
    /\ UNCHANGED extVars
    /\ UNCHANGED <<top, added_as, top_pc, last_op, other_top, check_duplicates,
                   top_err, err_msg, ops>>

InitDih == ParseIdle /\ DihInit /\ TopIdle /\ ExtIdle

NextDih == MatchDihedral

SpecDih == InitDih /\ [][NextDih]_vars


(***************************************************************************)
(* Topology.  A dict is a function on its keys; the empty dict and the     *)
(* empty list are << >>.                                                   *)
(***************************************************************************)
EmptyDict == << >>

Dict1(k, v) == [x \in {k} |-> v]

\* d[k] of a defaultdict(dict): the empty dict for a key that is not there
Get(d, k) == IF k \in DOMAIN d THEN d[k] ELSE EmptyDict

\* d.update(o)
Update(d, o) ==
    [k \in (DOMAIN d) \cup (DOMAIN o) |-> IF k \in DOMAIN o THEN o[k] ELSE d[k]]

\* d[k] = v
Put(d, k, v) == Update(d, Dict1(k, v))

\* lines 228-240
EmptyTopology ==
    [defaults |-> EmptyDict,
     defines |-> EmptyDict,
     atom_types |-> EmptyDict,
     nonbond_params |-> EmptyDict,
     description |-> << >>,
     persistences |-> << >>,
     molecules |-> << >>,
     mol_idx_by_name |-> EmptyDict,
     distance_restraints |-> EmptyDict,
     types |-> EmptyDict]

\* append_molecules that records the length after the append
append_molecules_LenAfter(self, new_molecule, molname) ==
    [self EXCEPT
        !.molecules = Append(@, new_molecule),
        !.mol_idx_by_name =
            Put(@, molname,
                Append(IF molname \in DOMAIN @ THEN @[molname] ELSE << >>,
                       Len(self.molecules) + 1))]

\* lines 288-295
append_molecules(self, new_molecule, molname) ==
    LET mol_idx == Len(self.molecules)
    IN  [self EXCEPT
            !.molecules = Append(@, new_molecule),
            !.mol_idx_by_name =
                Put(@, molname,
                    Append(IF molname \in DOMAIN @ THEN @[molname] ELSE << >>,
                           mol_idx))]

Outcome(t, e, m) == [top |-> t, err |-> e, msg |-> m]

\* Attributes walked from the last to the first
Attributes_Reversed == <<"nonbond_params", "atom_types", "defines", "defaults">>

\* line 262
Attributes == <<"defaults", "defines", "atom_types", "nonbond_params">>

\* lines 265-266: the keys of other's dict that self holds with another value
Conflicts(self_dict, other_dict) ==
    {key \in DOMAIN other_dict :
        key \in DOMAIN self_dict /\ self_dict[key] # other_dict[key]}

\* lines 262-269, from the i-th attribute on.  The dict is iterated in
\* insertion order, which the model leaves open: any conflicting key may be
\* the one the error names.
RECURSIVE MergeAttributes(_, _, _, _)
MergeAttributes(self, other, check, i) ==
    IF i > Len(Attributes) THEN {Outcome(self, "none", << >>)}
    ELSE LET attribute == Attributes[i]
             clash == Conflicts(self[attribute], other[attribute])
         IN  IF check /\ clash # {}
             THEN {Outcome(self, "MergeError", <<attribute, key>>) : key \in clash}
             ELSE MergeAttributes(
                      [self EXCEPT ![attribute] = Update(@, other[attribute])],
                      other, check, i + 1)

\* MergeLists that puts other's lines in front of self's
MergeLists_Prepend(self, other) ==
    [self EXCEPT !.description = other.description \o @,
                 !.persistences = other.persistences \o @]

\* lines 271-272
MergeLists(self, other) ==
    [self EXCEPT !.description = @ \o other.description,
                 !.persistences = @ \o other.persistences]

\* lines 274-275.  Iterating other's defaultdict yields its keys; a key
\* (molname, idx) is unpacked into atoms, dist_restr; self.distance_restraints[atoms]
\* creates an empty dict under atoms, and a dict has no append: AttributeError.
\* The key atoms, which is no pair, is written <<atoms>>.
MergeRestraints(self, other) ==
    IF DOMAIN other.distance_restraints = {}
    THEN {Outcome(self, "none", << >>)}
    ELSE {Outcome([self EXCEPT !.distance_restraints =
                       IF <<key[1]>> \in DOMAIN @ THEN @
                       ELSE Put(@, <<key[1]>>, EmptyDict)],
                  "AttributeError", << >>)
            : key \in DOMAIN other.distance_restraints}

\* lines 277-278, from the i-th molecule of other on
RECURSIVE MergeMolecules(_, _, _)
MergeMolecules(self, molecules, i) ==
    IF i > Len(molecules) THEN self
    ELSE MergeMolecules(append_molecules(self, molecules[i], molecules[i].mol_name),
                        molecules, i + 1)

\* line 283-284: inter_type[:-1] + "types"
TypeString(inter_type) ==
    CASE inter_type = "bonds" -> "bondtypes"
      [] inter_type = "angles" -> "angletypes"

Restrict(d, keys) == [k \in keys |-> d[k]]

\* lines 280-286.  Entries are written one by one until the first conflict;
\* the iteration order is left open, so the entries written before the error
\* are any set of conflict-free entries the order allows.
MergeTypes(self, other) ==
    LET clash(t) == Conflicts(Get(self.types, t), other.types[t])
        bad == {t \in DOMAIN other.types : clash(t) # {}}
        merged(ts, t, written) ==
            [u \in (DOMAIN self.types) \cup ts \cup {t} |->
                IF u = t THEN Update(Get(self.types, u), Restrict(other.types[u], written))
                ELSE IF u \in ts THEN Update(Get(self.types, u), other.types[u])
                ELSE self.types[u]]
    IN  IF bad = {}
        THEN {Outcome([self EXCEPT !.types =
                          [u \in (DOMAIN self.types) \cup (DOMAIN other.types) |->
                              Update(Get(self.types, u), Get(other.types, u))]],
                      "none", << >>)}
        ELSE {Outcome([self EXCEPT !.types = merged(x[1], x[2], x[4])],
                      "MergeError", <<TypeString(x[2]), x[3]>>)
                : x \in {y \in (SUBSET ((DOMAIN other.types) \ bad)) \X bad
                               \X (UNION {DOMAIN other.types[t] : t \in bad})
                               \X (SUBSET (UNION {DOMAIN other.types[t] : t \in bad})) :
                            /\ y[3] \in clash(y[2])
                            /\ y[4] \subseteq (DOMAIN other.types[y[2]]) \ clash(y[2])}}

\* lines 242-286: the outcomes of self.merge(other_top, check_duplicates)
merge(self, other, check) ==
    UNION { IF r.err # "none" THEN {r}
            ELSE UNION { IF q.err # "none" THEN {q}
                         ELSE MergeTypes(MergeMolecules(q.top, other.molecules, 1), other)
                         : q \in MergeRestraints(MergeLists(r.top, other), other) }
            : r \in MergeAttributes(self, other, check, 1) }

(***************************************************************************)
(* The topologies merged into self: up to MaxOtherEntries entries in all.  *)
(***************************************************************************)
MaxOtherEntries == 2
MaxOps == 3

LJ == {[nb1 |-> 1, nb2 |-> 2], [nb1 |-> 3, nb2 |-> 4]}

MolNames == {"a", "b"}

Molecule(name) == [mol_name |-> name]

DefaultsDicts == {EmptyDict} \cup {Dict1("comb-rule", v) : v \in {1, 2}}

DefinesDicts == {EmptyDict} \cup {Dict1("FLEXIBLE", v) : v \in {<<10>>, <<20>>}}

AtomTypeDicts ==
    UNION {[keys -> LJ] : keys \in SUBSET {"A1", "A2"}}

NonbondDicts == {EmptyDict} \cup {Dict1({"A1", "A2"}, v) : v \in LJ}

BondTypeDicts == {Dict1(<<"A1", "A2">>, v) : v \in {<<1>>, <<2>>}}

AngleTypeDicts == {Dict1(<<"A1", "A2", "A1">>, <<1>>)}

TypesDicts ==
    {EmptyDict}
    \cup {Dict1("bonds", b) : b \in BondTypeDicts}
    \cup {Dict1("angles", a) : a \in AngleTypeDicts}
    \cup {Put(Dict1("bonds", b), "angles", a) : b \in BondTypeDicts, a \in AngleTypeDicts}

RestraintDicts == {EmptyDict, Dict1(<<"a", 0>>, Dict1(<<0, 1>>, 5))}

MoleculeLists ==
    {<< >>} \cup {<<Molecule(n)>> : n \in MolNames}
    \cup {<<Molecule("a"), Molecule("b")>>}

RECURSIVE SumOver(_, _)
SumOver(f, keys) ==
    IF keys = {} THEN 0
    ELSE LET k == CHOOSE x \in keys : TRUE
         IN  Cardinality(DOMAIN f[k]) + SumOver(f, keys \ {k})

Entries(o) ==
    Cardinality(DOMAIN o.defaults) + Cardinality(DOMAIN o.defines)
    + Cardinality(DOMAIN o.atom_types) + Cardinality(DOMAIN o.nonbond_params)
    + SumOver(o.types, DOMAIN o.types)
    + Cardinality(DOMAIN o.distance_restraints) + Len(o.molecules)

Others ==
    {o \in {[MergeMolecules(EmptyTopology, ms, 1) EXCEPT
                !.defaults = d, !.defines = f, !.atom_types = a,
                !.nonbond_params = n, !.types = t, !.distance_restraints = r,
                !.description = <<"other">>, !.persistences = <<"wlc">>]
              : d \in DefaultsDicts, f \in DefinesDicts, a \in AtomTypeDicts,
                n \in NonbondDicts, t \in TypesDicts, r \in RestraintDicts,
                ms \in MoleculeLists} :
        Entries(o) <= MaxOtherEntries}

TopInit ==
    /\ top = EmptyTopology
    /\ added_as = << >>
    /\ top_pc = "ready"
    /\ last_op = "none"
    /\ other_top = EmptyTopology
    /\ check_duplicates = TRUE
    /\ top_err = "none"
    /\ err_msg = << >>
    /\ ops = 0

\* a call of self.append_molecules(new_molecule, molname)
AppendMolecules ==
    /\ top_pc = "ready"
    /\ ops < MaxOps
    /\ \E name \in MolNames, molname \in MolNames :
          /\ top' = append_molecules(top, Molecule(name), molname)
          /\ added_as' = Append(added_as, molname)
    /\ last_op' = "append"
    /\ other_top' = EmptyTopology
    /\ check_duplicates' = TRUE
    /\ top_err' = "none"
    /\ err_msg' = << >>
    /\ ops' = ops + 1
    /\ UNCHANGED top_pc
    /\ UNCHANGED parseVars
    /\ UNCHANGED <<atoms, interaction_dict, dih_pc, dih_match>>
    /\ UNCHANGED extVars

\* a call of self.merge(other_top, check_duplicates); line 278 adds every
\* molecule under its mol_name
Merge ==
    /\ top_pc = "ready"
    /\ ops < MaxOps
    /\ \E o \in Others, check \in BOOLEAN :
          \E r \in merge(top, o, check) :
              /\ top' = r.top
              /\ top_err' = r.err
              /\ err_msg' = r.msg
              /\ other_top' = o
              /\ check_duplicates' = check
              /\ added_as' = added_as \o
                     [i \in 1..(Len(r.top.molecules) - Len(top.molecules)) |->
                         r.top.molecules[Len(top.molecules) + i].mol_name]
    /\ last_op' = "merge"
    /\ ops' = ops + 1
    /\ UNCHANGED top_pc
    /\ UNCHANGED parseVars
    /\ UNCHANGED <<atoms, interaction_dict, dih_pc, dih_match>>
    /\ UNCHANGED extVars

InitTop == ParseIdle /\ DihIdle /\ TopInit /\ ExtIdle

NextTop ==
    \/ AppendMolecules
    \/ Merge

SpecTop == InitTop /\ [][NextTop]_vars

(***************************************************************************)
(* Merge order.  Two topologies A and B are merged into two copies of the  *)
(* same topology T: A then B into top, B then A into top_ba.  A merge that *)
(* raises ends the run.                                                    *)
(***************************************************************************)
MaxOrderEntries == 1

\* T: what the merge of one source into a new Topology leaves
OrderStarts ==
    {r.top : r \in {q \in UNION {merge(EmptyTopology, o, TRUE) :
                                    o \in {x \in Others : Entries(x) <= 1}} :
                       q.err = "none"}}

\* the topologies merged, told apart by their description line
OrderArgs(line) ==
    {[o EXCEPT !.description = <<line>>] :
        o \in {x \in Others : Entries(x) <= MaxOrderEntries}}

OrderInit ==
    /\ top_start \in OrderStarts
    /\ top = top_start
    /\ top_ba = top_start
    /\ first_top = EmptyTopology
    /\ other_top = EmptyTopology
    /\ added_as = << >>
    /\ top_pc = "first"
    /\ last_op = "none"
    /\ check_duplicates = TRUE
    /\ top_err = "none"
    /\ err_ba = "none"
    /\ err_msg = << >>
    /\ ops = 0

\* top.merge(A)
MergeFirst ==
    /\ top_pc = "first"
    /\ \E A \in OrderArgs("A") :
          \E r \in merge(top, A, TRUE) :
              /\ top' = r.top
              /\ top_err' = r.err
              /\ err_msg' = r.msg
              /\ first_top' = A
              /\ top_pc' = IF r.err = "none" THEN "second" ELSE "done"
    /\ last_op' = "merge"
    /\ ops' = ops + 1
    /\ UNCHANGED <<added_as, other_top, check_duplicates, top_start, top_ba, err_ba>>
    /\ UNCHANGED parseVars
    /\ UNCHANGED dihVars
    /\ UNCHANGED <<prepVars, tkVars>>

\* top.merge(B)
MergeSecond ==
    /\ top_pc = "second"
    /\ \E B \in OrderArgs("B") :
          \E r \in merge(top, B, TRUE) :
              /\ top' = r.top
              /\ top_err' = r.err
              /\ err_msg' = r.msg
              /\ other_top' = B
              /\ top_pc' = IF r.err = "none" THEN "rev_first" ELSE "done"
    /\ last_op' = "merge"
    /\ ops' = ops + 1
    /\ UNCHANGED <<added_as, first_top, check_duplicates, top_start, top_ba, err_ba>>
    /\ UNCHANGED parseVars
    /\ UNCHANGED dihVars
    /\ UNCHANGED <<prepVars, tkVars>>

\* top_ba.merge(B)
MergeRevFirst ==
    /\ top_pc = "rev_first"
    /\ \E r \in merge(top_ba, other_top, TRUE) :
          /\ top_ba' = r.top
          /\ err_ba' = r.err
          /\ top_pc' = IF r.err = "none" THEN "rev_second" ELSE "done"
    /\ ops' = ops + 1
    /\ UNCHANGED <<top, added_as, last_op, other_top, check_duplicates, top_err,
                   err_msg, top_start, first_top>>
    /\ UNCHANGED parseVars
    /\ UNCHANGED dihVars
    /\ UNCHANGED <<prepVars, tkVars>>

\* top_ba.merge(A)
MergeRevSecond ==
    /\ top_pc = "rev_second"
    /\ \E r \in merge(top_ba, first_top, TRUE) :
          /\ top_ba' = r.top
          /\ err_ba' = r.err
    /\ top_pc' = "done"
    /\ ops' = ops + 1
    /\ UNCHANGED <<top, added_as, last_op, other_top, check_duplicates, top_err,
                   err_msg, top_start, first_top>>
    /\ UNCHANGED parseVars
    /\ UNCHANGED dihVars
    /\ UNCHANGED <<prepVars, tkVars>>

InitOrder == ParseIdle /\ DihIdle /\ OrderInit /\ PrepIdle /\ TkIdle

NextOrder ==
    \/ MergeFirst
    \/ MergeSecond
    \/ MergeRevFirst
    \/ MergeRevSecond

SpecOrder == InitOrder /\ [][NextOrder]_vars

(***************************************************************************)
(* Topology.preprocess.  A float x is written <<x>>.  The inputs keep the  *)
(* sums even and the products perfect squares, so that the halves and the  *)
(* square roots of the combination rules are exact.                        *)
(***************************************************************************)
Num(x) == <<x>>

\* x ** 0.5 for a perfect square x
Sqrt(x) == CHOOSE r \in 0..x : r * r = x

\* lines 85-107
lorentz_berthelot_rule(sig_A, sig_B, eps_A, eps_B) ==
    LET sig == Num((sig_A[1] + sig_B[1]) \div 2)
        eps == Num(Sqrt(eps_A[1] * eps_B[1]))
    IN  <<sig, eps>>

\* lines 110-133
geometric_rule(C6_A, C6_B, C12_A, C12_B) ==
    LET C6 == Num(Sqrt(C6_A[1] * C6_B[1]))
        C12 == Num(Sqrt(C12_A[1] * C12_B[1]))
    IN  <<C6, C12>>

\* lines 331-333: the keys of comb_funcs
comb_funcs == {1, 2, 3}

\* the pairs generated although nonbond_params has an entry for them
PairKeys_Overwrite(self) ==
    IF self.defaults["gen-pairs"] = "yes"
    THEN {{A, B} : A \in DOMAIN self.atom_types, B \in DOMAIN self.atom_types}
             \ {{A} : A \in DOMAIN self.atom_types}
    ELSE {}

\* the pairs generated whatever the gen-pairs flag says
PairKeys_FlagIgnored(self) ==
    ({{A, B} : A \in DOMAIN self.atom_types, B \in DOMAIN self.atom_types}
         \ {{A} : A \in DOMAIN self.atom_types})
    \ DOMAIN self.nonbond_params

\* lines 337-339: the pairs of distinct atom types that get a generated
\* entry; frozenset([A, B]) is the set {A, B}
PairKeys(self) ==
    IF self.defaults["gen-pairs"] = "yes"
    THEN ({{A, B} : A \in DOMAIN self.atom_types, B \in DOMAIN self.atom_types}
              \ {{A} : A \in DOMAIN self.atom_types})
         \ DOMAIN self.nonbond_params
    ELSE {}

\* lines 322-353.  comb_funcs[...] of line 335 and self.defaults["gen-pairs"]
\* of line 337 raise KeyError for a key that is not there.
gen_pairs(self) ==
    IF "comb-rule" \notin DOMAIN self.defaults
       \/ self.defaults["comb-rule"] \notin comb_funcs
       \/ "gen-pairs" \notin DOMAIN self.defaults
    THEN Outcome(self, "KeyError", << >>)
    ELSE LET comb_rule(a, b, c, d) ==
                 IF self.defaults["comb-rule"] = 2
                 THEN geometric_rule(a, b, c, d)
                 ELSE lorentz_berthelot_rule(a, b, c, d)
             at == self.atom_types
             \* lines 340-346
             generated(key) ==
                 LET A == CHOOSE x \in key : TRUE
                     B == CHOOSE x \in key : x # A
                     nb == comb_rule(at[A].nb1, at[B].nb1, at[A].nb2, at[B].nb2)
                 IN  [nb1 |-> nb[1], nb2 |-> nb[2]]
             with_pairs == Update(self.nonbond_params,
                                  [key \in PairKeys(self) |-> generated(key)])
             \* lines 348-353
             selfs == {{A} : A \in DOMAIN at} \ DOMAIN with_pairs
             own(key) ==
                 LET A == CHOOSE x \in key : TRUE
                 IN  [nb1 |-> at[A].nb1, nb2 |-> at[A].nb2]
         IN  Outcome([self EXCEPT !.nonbond_params =
                         Update(with_pairs, [key \in selfs |-> own(key)])],
                     "none", << >>)

\* lines 54-82: the parameters with every define name replaced by its values
RECURSIVE ReplacedParameters(_, _, _)
ReplacedParameters(parameters, defines, i) ==
    IF i > Len(parameters) THEN << >>
    ELSE (IF parameters[i] \in DOMAIN defines
          THEN defines[parameters[i]]
          ELSE <<parameters[i]>>)
         \o ReplacedParameters(parameters, defines, i + 1)

replace_defined_interaction(interaction, defines) ==
    [interaction EXCEPT !.parameters = ReplacedParameters(@, defines, 1)]

\* lines 311-320: a block is [nodes, interactions]; block.interactions is the
\* sequence, in insertion order, of [inter_type, list]
replace_defines(self, blks) ==
    [b \in 1..Len(blks) |->
        [blks[b] EXCEPT !.interactions =
            [g \in 1..Len(@) |->
                [@[g] EXCEPT !.list =
                    [i \in 1..Len(@) |->
                        replace_defined_interaction(@[i], self.defines)]]]]]

\* lines 364-365
SkippedTypes == {"pairs", "exclusions", "virtual_sitesn", "virtual_sites2",
                 "virtual_sites3", "virtual_sites4"}

\* line 385: inter_type in "dihedrals", a substring test; of the interaction
\* types of the model only "dihedrals" is a substring
InDihedrals(inter_type) == inter_type = "dihedrals"

\* result of one interaction: the interaction, self.types, the exception
Resolved(interaction, types, err, msg) ==
    [interaction |-> interaction, types |-> types, err |-> err, msg |-> msg]

\* the lookup that does not try the reversed tuple
LookupKey_ForwardOnly(atms, table, inter_type) ==
    IF atms \in DOMAIN table THEN atms
    ELSE IF InDihedrals(inter_type)
         THEN match_dihedral_interaction_types(atms, DOMAIN table)
         ELSE NoKey

\* lines 381-388: the key of self.types[inter_type] the parameters come from,
\* or NoKey
LookupKey(atms, table, inter_type) ==
    IF atms \in DOMAIN table THEN atms
    ELSE IF Reversed(atms) \in DOMAIN table THEN Reversed(atms)
    ELSE IF InDihedrals(inter_type)
         THEN match_dihedral_interaction_types(atms, DOMAIN table)
         ELSE NoKey

\* line 373
OPLS(self) == "_FF_OPLS" \in DOMAIN self.defines \/ "_FF_OPLS_AA" \in DOMAIN self.defines

\* self.types is a defaultdict: reading self.types[inter_type] creates the
\* empty table when there is none
WithTable(types, inter_type) ==
    IF inter_type \in DOMAIN types THEN types ELSE Put(types, inter_type, EmptyDict)

\* lines 390-403: the interaction with the parameters found under key, or the
\* OSError when no key was found
ResolveFound(interaction, inter_type, types, key) ==
    IF key = NoKey
    THEN Resolved(interaction, types, "OSError", <<inter_type, interaction.atoms>>)
    ELSE Resolved([interaction EXCEPT !.parameters = types[inter_type][key][1],
                                      !.meta = Update(@, types[inter_type][key][2])],
                  types, "none", << >>)

\* lines 373-388: atypes are the atom types of the interaction's atoms; under
\* OPLS the bond types are looked up, and an atom type that is not in
\* self.atom_types raises KeyError
ResolveTyped(self, inter_type, interaction, atypes) ==
    IF OPLS(self) /\ \E i \in 1..Len(atypes) : atypes[i] \notin DOMAIN self.atom_types
    THEN Resolved(interaction, self.types, "KeyError", << >>)
    ELSE ResolveFound(interaction, inter_type, WithTable(self.types, inter_type),
                      LookupKey(IF OPLS(self)
                                THEN [i \in 1..Len(atypes) |->
                                         self.atom_types[atypes[i]].bond_type]
                                ELSE atypes,
                                WithTable(self.types, inter_type)[inter_type],
                                inter_type))

\* lines 368-403 for one interaction
ResolveInteraction(self, block, inter_type, interaction) ==
    IF Len(interaction.parameters) # 1
    THEN Resolved(interaction, self.types, "none", << >>)
    ELSE ResolveTyped(self, inter_type, interaction,
                      [i \in 1..Len(interaction.atoms) |->
                          block.nodes[interaction.atoms[i]]])

RECURSIVE ResolveList(_, _, _, _, _)

\* the i-th interaction of the list is resolved to r: an exception leaves the
\* later interactions as they are
ResolveListFrom(self, block, inter_type, list, i, r) ==
    IF r.err # "none"
    THEN [list |-> [list EXCEPT ![i] = r.interaction],
          top |-> [self EXCEPT !.types = r.types], err |-> r.err, msg |-> r.msg]
    ELSE ResolveList([self EXCEPT !.types = r.types], block, inter_type,
                     [list EXCEPT ![i] = r.interaction], i + 1)

\* the loop of line 367 from the i-th interaction on
ResolveList(self, block, inter_type, list, i) ==
    IF i > Len(list) THEN [list |-> list, top |-> self, err |-> "none", msg |-> << >>]
    ELSE ResolveListFrom(self, block, inter_type, list, i,
                         ResolveInteraction(self, block, inter_type, list[i]))

RECURSIVE ResolveBlock(_, _, _)

\* the list of the g-th interaction type of the block is resolved to r
ResolveBlockFrom(block, g, r) ==
    IF r.err # "none"
    THEN [block |-> [block EXCEPT !.interactions[g].list = r.list],
          top |-> r.top, err |-> r.err, msg |-> r.msg]
    ELSE ResolveBlock(r.top, [block EXCEPT !.interactions[g].list = r.list], g + 1)

\* the loop of line 363 from the g-th interaction type of the block on
ResolveBlock(self, block, g) ==
    IF g > Len(block.interactions)
    THEN [block |-> block, top |-> self, err |-> "none", msg |-> << >>]
    ELSE IF block.interactions[g].inter_type \in SkippedTypes
    THEN ResolveBlock(self, block, g + 1)
    ELSE ResolveBlockFrom(block, g,
                          ResolveList(self, block, block.interactions[g].inter_type,
                                      block.interactions[g].list, 1))

RECURSIVE ResolveBlocks(_, _, _)

\* the b-th block is resolved to r
ResolveBlocksFrom(blks, b, r) ==
    IF r.err # "none"
    THEN [blocks |-> [blks EXCEPT ![b] = r.block],
          top |-> r.top, err |-> r.err, msg |-> r.msg]
    ELSE ResolveBlocks(r.top, [blks EXCEPT ![b] = r.block], b + 1)

\* lines 355-403, from the b-th block on
ResolveBlocks(self, blks, b) ==
    IF b > Len(blks) THEN [blocks |-> blks, top |-> self, err |-> "none", msg |-> << >>]
    ELSE ResolveBlocksFrom(blks, b, ResolveBlock(self, blks[b], 1))

gen_bonded_interactions(self, blks) == ResolveBlocks(self, blks, 1)

\* lines 412-423 for one entry.  The quotient and the power of lines 416 and
\* 421 are kept as terms: (nb2/nb1)**(1.0/6.0) is <<"sig", nb1, nb2>> and
\* nb1**2.0/(4*nb2) is <<"eps", nb1, nb2>>.
DividesByZero(entry) ==
    \/ entry.nb2 # Num(0) /\ entry.nb1 = Num(0)
    \/ entry.nb1 # Num(0) /\ entry.nb2 = Num(0)

SigEps(entry) ==
    [nb1 |-> IF entry.nb2 # Num(0) THEN <<"sig", entry.nb1[1], entry.nb2[1]>> ELSE Num(0),
     nb2 |-> IF entry.nb1 # Num(0) THEN <<"eps", entry.nb1[1], entry.nb2[1]>> ELSE Num(0)]

\* lines 405-425.  The entries are converted in the order of the dict, which
\* the model leaves open; a division by zero leaves the entries converted so
\* far converted and the others as they were.
convert_nonbond_to_sig_eps(self) ==
    LET nb == self.nonbond_params
        bad == {k \in DOMAIN nb : DividesByZero(nb[k])}
        converted(keys) == [k \in DOMAIN nb |-> IF k \in keys THEN SigEps(nb[k]) ELSE nb[k]]
    IN  IF bad = {}
        THEN {Outcome([self EXCEPT !.nonbond_params = converted(DOMAIN nb)], "none", << >>)}
        ELSE {Outcome([self EXCEPT !.nonbond_params = converted(keys)],
                      "ZeroDivisionError", << >>)
                : keys \in SUBSET ((DOMAIN nb) \ bad)}

(***************************************************************************)
(* The topologies preprocess is run on.                                    *)
(***************************************************************************)
MaxAtomTypes == 2
MaxInteractions == 2

NamePool == <<"A1", "A2", "A3", "A4">>

AtomNames == {NamePool[i] : i \in 1..MaxAtomTypes}

BondTypeOf(name) == IF name \in {"A1", "A3"} THEN "B1" ELSE "B2"

AtomLJ == {<<2, 8>>, <<8, 2>>, <<0, 2>>, <<2, 0>>, <<0, 0>>}

AtomType(name, lj) ==
    [nb1 |-> Num(lj[1]), nb2 |-> Num(lj[2]), bond_type |-> BondTypeOf(name)]

PrepAtomTypes ==
    UNION {{[n \in names |-> AtomType(n, f[n])] : f \in [names -> AtomLJ]}
              : names \in SUBSET AtomNames}

\* authored entries: the self pair of A1 and the pair of A1 and A2
PrepNonbond ==
    LET value(x) == [nb1 |-> Num(x), nb2 |-> Num(x)]
    IN  UNION {[keys -> {value(2), value(8)}] : keys \in SUBSET {{"A1"}, {"A1", "A2"}}}

PrepDefaults ==
    {[k \in {"comb-rule", "gen-pairs"} |-> IF k = "comb-rule" THEN c ELSE g]
        : c \in {1, 2, 3}, g \in {"yes", "no"}}
    \cup {Dict1("comb-rule", 1)}

PrepDefines ==
    {EmptyDict, Dict1("FLEX", <<"1", "0.3">>), Dict1("FLEX", <<"7">>),
     Dict1("_FF_OPLS", << >>)}

Interaction(atms, parameters, meta) ==
    [atoms |-> atms, parameters |-> parameters, meta |-> meta]

BondChoices ==
    {Interaction(<<0, 1>>, <<"1">>, EmptyDict),
     Interaction(<<1, 0>>, <<"1">>, Dict1("ifdef", "X")),
     Interaction(<<0, 1>>, <<"1", "0.3", "500">>, EmptyDict),
     Interaction(<<1, 2>>, <<"FLEX">>, EmptyDict)}

DihedralChoices ==
    {Interaction(<<0, 1, 2, 3>>, <<"9">>, EmptyDict),
     Interaction(<<3, 2, 1, 0>>, <<"9">>, EmptyDict)}

PairChoices == {Interaction(<<0, 3>>, <<"1">>, EmptyDict)}

ListsUpTo(choices, n) == UNION {[1..k -> choices] : k \in 0..n}

Group(inter_type, list) == [inter_type |-> inter_type, list |-> list]

\* one block of four atoms; an interaction type without interactions has no
\* entry in block.interactions
PrepBlocks ==
    {<<[nodes |-> [n \in 0..3 |-> IF n = 0 THEN "A1" ELSE "A2"],
        interactions |->
            SelectSeq(<<Group("bonds", b), Group("pairs", p), Group("dihedrals", d)>>,
                      LAMBDA g : g.list # << >>)]>>
        : b \in ListsUpTo(BondChoices, MaxInteractions),
          p \in ListsUpTo(PairChoices, 1),
          d \in ListsUpTo(DihedralChoices, 1)}

PrepBondTypes ==
    {EmptyDict,
     Dict1(<<"A1", "A2">>, <<<<"1", "0.47", "1000">>, Dict1("comment", "c")>>),
     Dict1(<<"A2", "A1">>, <<<<"1", "0.5", "900">>, EmptyDict>>),
     Put(Dict1(<<"A1", "A2">>, <<<<"1", "0.47", "1000">>, Dict1("comment", "c")>>),
         <<"A2", "A1">>, <<<<"1", "0.5", "900">>, EmptyDict>>),
     Dict1(<<"B1", "B2">>, <<<<"1", "0.4", "800">>, EmptyDict>>)}

PrepDihedralTypes ==
    {EmptyDict} \cup
    {Dict1(key, <<<<"9", "180", "2">>, EmptyDict>>)
        : key \in {<<"A1", "A2", "A2", "A2">>, <<"X", "A2", "A2", "A2">>,
                   <<"A2", "A2", "A2", "X">>}}

\* self.types has an entry only for the interaction types that have types
PrepTypes ==
    {[t \in {x \in {"bonds", "dihedrals"} :
                (IF x = "bonds" THEN b ELSE d) # EmptyDict}
         |-> IF t = "bonds" THEN b ELSE d]
        : b \in PrepBondTypes, d \in PrepDihedralTypes}

PrepTopology(defaults, defines, atom_types, nonbond_params, types) ==
    [EmptyTopology EXCEPT !.defaults = defaults, !.defines = defines,
                          !.atom_types = atom_types,
                          !.nonbond_params = nonbond_params, !.types = types]

\* every choice of the non-bonded tables with one block, and every choice of
\* the blocks, defines and types with one choice of the non-bonded tables
PrepInputs ==
    {<<PrepTopology(d, EmptyDict, a, n, Dict1("bonds", Dict1(<<"A1", "A2">>,
                        <<<<"1", "0.47", "1000">>, EmptyDict>>))),
       <<[nodes |-> [x \in 0..3 |-> IF x = 0 THEN "A1" ELSE "A2"],
          interactions |-> <<Group("bonds", <<Interaction(<<0, 1>>, <<"1">>, EmptyDict)>>)>>]>> >>
        : d \in PrepDefaults, a \in PrepAtomTypes, n \in PrepNonbond}
    \cup
    {<<PrepTopology([k \in {"comb-rule", "gen-pairs"} |-> IF k = "comb-rule" THEN 1 ELSE "no"],
                    f, a, EmptyDict, t), b>>
        : f \in PrepDefines,
          a \in {[n \in names |-> AtomType(n, <<2, 8>>)] : names \in {{"A1"}, {"A1", "A2"}}},
          t \in PrepTypes, b \in PrepBlocks}

PrepInit ==
    /\ \E input \in PrepInputs : top = input[1] /\ blocks = input[2]
    /\ top_pc = "gen_pairs"
    /\ last_op = "none"
    /\ added_as = << >>
    /\ other_top = << >>
    /\ check_duplicates = TRUE
    /\ top_err = "none"
    /\ err_msg = << >>
    /\ ops = 0

\* line 303
GenPairs ==
    /\ top_pc = "gen_pairs"
    /\ \E r \in {gen_pairs(top)} :
           /\ top' = r.top
           /\ top_err' = r.err
           /\ top_pc' = IF r.err = "none" THEN "replace_defines" ELSE "error"
    /\ last_op' = "gen_pairs"
    /\ ops' = ops + 1
    /\ UNCHANGED <<added_as, other_top, check_duplicates, err_msg, blocks>>
    /\ UNCHANGED parseVars
    /\ UNCHANGED dihVars
    /\ UNCHANGED <<ordVars, tkVars>>

\* line 305
ReplaceDefines ==
    /\ top_pc = "replace_defines"
    /\ blocks' = replace_defines(top, blocks)
    /\ top_pc' = "gen_bonded_interactions"
    /\ last_op' = "replace_defines"
    /\ ops' = ops + 1
    /\ UNCHANGED <<top, added_as, other_top, check_duplicates, top_err, err_msg>>
    /\ UNCHANGED parseVars
    /\ UNCHANGED dihVars
    /\ UNCHANGED <<ordVars, tkVars>>

\* line 306
GenBondedInteractions ==
    /\ top_pc = "gen_bonded_interactions"
    /\ \E r \in {gen_bonded_interactions(top, blocks)} :
           /\ blocks' = r.blocks
           /\ top' = r.top
           /\ top_err' = r.err
           /\ err_msg' = r.msg
           /\ top_pc' = IF r.err = "none" THEN "convert" ELSE "error"
    /\ last_op' = "gen_bonded_interactions"
    /\ ops' = ops + 1
    /\ UNCHANGED <<added_as, other_top, check_duplicates>>
    /\ UNCHANGED parseVars
    /\ UNCHANGED dihVars
    /\ UNCHANGED <<ordVars, tkVars>>

\* lines 308-309
ConvertUnits ==
    /\ top_pc = "convert"
    /\ IF top.defaults["comb-rule"] = 1
       THEN \E r \in convert_nonbond_to_sig_eps(top) :
               /\ top' = r.top
               /\ top_err' = r.err
               /\ top_pc' = IF r.err = "none" THEN "done" ELSE "error"
               /\ last_op' = "convert_nonbond_to_sig_eps"
       ELSE /\ top_pc' = "done"
            /\ UNCHANGED <<top, top_err, last_op>>
    /\ ops' = ops + 1
    /\ UNCHANGED <<added_as, other_top, check_duplicates, err_msg, blocks>>
    /\ UNCHANGED parseVars
    /\ UNCHANGED dihVars
    /\ UNCHANGED <<ordVars, tkVars>>

InitPrep == ParseIdle /\ DihIdle /\ PrepInit /\ OrdIdle /\ TkIdle

NextPrep ==
    \/ GenPairs
    \/ ReplaceDefines
    \/ GenBondedInteractions
    \/ ConvertUnits

SpecPrep == InitPrep /\ [][NextPrep]_vars

(***************************************************************************)
(* tokenize_big_smile.  One action per iteration of the loop over          *)
(* smile_iter; the iteration on "[" also takes the characters it reads     *)
(* with next(smile_iter).                                                  *)
(***************************************************************************)
\* the characters of the string '@ . - = # $ : / \\ + - %'
NonAtomChars == {"@", " ", ".", "-", "=", "#", "$", ":", "/", "\\", "+", "%"}

DescriptorStarts == {"$", ">", "<"}

\* the BigSmile strings the tokenizer is run on, written from up to
\* MaxSmileItems items: atoms, a bracket atom, a bond, a ring-closure digit,
\* a bonding descriptor, branch parentheses and an unterminated descriptor
MaxSmileItems == 6

SmileItems ==
    {<<"C">>, <<"[", "O", "]">>, <<"=">>, <<"1">>, <<"[", "$", "]">>,
     <<"(">>, <<")">>, <<"[", "$">>}

RECURSIVE Flatten(_)
Flatten(its) ==
    IF Len(its) = 0 THEN << >> ELSE its[1] \o Flatten(Tail(its))

BigSmiles == {Flatten(its) : its \in ListsUpTo(SmileItems, MaxSmileItems)}

TokInit ==
    /\ big_smile \in BigSmiles
    /\ tk_pos = 0
    /\ smile = << >>
    /\ node_count = 0
    /\ tk_prev_node = 0
    /\ tk_anchor = None
    /\ bonding_descrpt = EmptyDict
    /\ tk_pc = "loop"
    /\ tk_err = "none"
    /\ ptr_trace = << >>

\* the character the for loop takes next
token == PyAt(big_smile, tk_pos)

\* ptr_trace after n more characters were yielded while prev_node was unchanged
Traced(n) == ptr_trace \o [i \in 1..n |-> tk_prev_node]

\* next(smile_iter) on the exhausted iterator
StopIteration ==
    /\ tk_pc' = "error"
    /\ tk_err' = "StopIteration"
    /\ ptr_trace' = Traced(Len(big_smile) - tk_pos)
    /\ tk_pos' = Len(big_smile)
    /\ UNCHANGED <<big_smile, smile, node_count, tk_prev_node, tk_anchor, bonding_descrpt>>

TokBracket ==
    /\ tk_pc = "loop"
    /\ tk_pos < Len(big_smile)
    /\ token = "["
    /\ IF tk_pos + 1 >= Len(big_smile)
       THEN StopIteration
       ELSE LET peek == PyAt(big_smile, tk_pos + 1)
                close == PyFind(big_smile, "]", tk_pos + 2)
            IN  IF peek \in DescriptorStarts
                THEN IF close = -1
                     THEN StopIteration
                     ELSE /\ bonding_descrpt' =
                                Put(bonding_descrpt, tk_prev_node,
                                    PySlice(big_smile, tk_pos + 1, close))
                          /\ ptr_trace' = Traced(close + 1 - tk_pos)
                          /\ tk_pos' = close + 1
                          /\ UNCHANGED <<big_smile, smile, node_count, tk_prev_node,
                                         tk_anchor, tk_pc, tk_err>>
                ELSE /\ smile' = smile \o <<token, peek>>
                     /\ tk_prev_node' = node_count
                     /\ node_count' = node_count + 1
                     /\ ptr_trace' = Traced(2)
                     /\ tk_pos' = tk_pos + 2
                     /\ UNCHANGED <<big_smile, tk_anchor, bonding_descrpt, tk_pc, tk_err>>
    /\ UNCHANGED parseVars
    /\ UNCHANGED dihVars
    /\ UNCHANGED topVars
    /\ UNCHANGED <<ordVars, prepVars>>

TokOpen ==
    /\ tk_pc = "loop"
    /\ tk_pos < Len(big_smile)
    /\ token = "("
    /\ tk_anchor' = tk_prev_node
    /\ smile' = smile \o <<token>>
    /\ ptr_trace' = Traced(1)
    /\ tk_pos' = tk_pos + 1
    /\ UNCHANGED <<big_smile, node_count, tk_prev_node, bonding_descrpt, tk_pc, tk_err>>
    /\ UNCHANGED parseVars
    /\ UNCHANGED dihVars
    /\ UNCHANGED topVars
    /\ UNCHANGED <<ordVars, prepVars>>

\* reading anchor before any "(" assigned it raises UnboundLocalError
TokClose ==
    /\ tk_pc = "loop"
    /\ tk_pos < Len(big_smile)
    /\ token = ")"
    /\ ptr_trace' = Traced(1)
    /\ tk_pos' = tk_pos + 1
    /\ IF tk_anchor = None
       THEN /\ tk_pc' = "error"
            /\ tk_err' = "UnboundLocalError"
            /\ UNCHANGED <<smile, tk_prev_node>>
       ELSE /\ tk_prev_node' = tk_anchor
            /\ smile' = smile \o <<token>>
            /\ UNCHANGED <<tk_pc, tk_err>>
    /\ UNCHANGED <<big_smile, node_count, tk_anchor, bonding_descrpt>>
    /\ UNCHANGED parseVars
    /\ UNCHANGED dihVars
    /\ UNCHANGED topVars
    /\ UNCHANGED <<ordVars, prepVars>>

TokOther ==
    /\ tk_pc = "loop"
    /\ tk_pos < Len(big_smile)
    /\ token \notin {"[", "(", ")"}
    /\ IF token \notin NonAtomChars
       THEN /\ tk_prev_node' = node_count
            /\ node_count' = node_count + 1
       ELSE UNCHANGED <<tk_prev_node, node_count>>
    /\ smile' = smile \o <<token>>
    /\ ptr_trace' = Traced(1)
    /\ tk_pos' = tk_pos + 1
    /\ UNCHANGED <<big_smile, tk_anchor, bonding_descrpt, tk_pc, tk_err>>
    /\ UNCHANGED parseVars
    /\ UNCHANGED dihVars
    /\ UNCHANGED topVars
    /\ UNCHANGED <<ordVars, prepVars>>

\* the loop is over: return smile, bonding_descrpt
TokReturn ==
    /\ tk_pc = "loop"
    /\ tk_pos = Len(big_smile)
    /\ tk_pc' = "done"
    /\ UNCHANGED <<big_smile, tk_pos, smile, node_count, tk_prev_node, tk_anchor,
                   bonding_descrpt, tk_err, ptr_trace>>
    /\ UNCHANGED parseVars
    /\ UNCHANGED dihVars
    /\ UNCHANGED topVars
    /\ UNCHANGED <<ordVars, prepVars>>

InitTok == ParseIdle /\ DihIdle /\ TopIdle /\ OrdIdle /\ PrepIdle /\ TokInit

NextTok ==
    \/ TokBracket
    \/ TokOpen
    \/ TokClose
    \/ TokOther
    \/ TokReturn

SpecTok == InitTok /\ [][NextTok]_vars

(***************************************************************************)
(* Properties of match_dihedral_interaction_types (SpecDih)                *)
(***************************************************************************)
WildKey(b, c, d) == <<"X", b, c, d>>

\* C1: with a table whose only key is ('X',b,c,d), the matcher returns that key
\* for the atoms (a,b,c,d) and also for the reversed atoms (d,c,b,a).
C1_BothOrientations ==
    dih_pc = "done" =>
        \A a, b, c, d \in AtomTypes :
            interaction_dict = {WildKey(b, c, d)} =>
                /\ atoms = <<a, b, c, d>> => dih_match = WildKey(b, c, d)
                /\ atoms = <<d, c, b, a>> => dih_match = WildKey(b, c, d)

\* a table key matches the atoms when every entry is 'X' or the atom's type
KeyFits(key, atms) == \A i \in 1..4 : key[i] = "X" \/ key[i] = atms[i]

KeyMatches(key, atms) == KeyFits(key, atms) \/ KeyFits(key, Reversed(atms))

Wildcards(key) == Cardinality({i \in 1..4 : key[i] = "X"})

\* C2: the matcher returns a matching key with the fewest wildcards among all
\* table keys that match the atoms forward or reversed, and None only when no
\* table key matches.
C2_MostSpecific ==
    dih_pc = "done" =>
        LET fitting == {k \in interaction_dict : KeyMatches(k, atoms)}
        IN  /\ (dih_match = NoKey) <=> (fitting = {})
            /\ dih_match # NoKey =>
                   /\ dih_match \in fitting
                   /\ \A k \in fitting : Wildcards(dih_match) <= Wildcards(k)


(***************************************************************************)
(* Properties of res_pattern_to_meta_mol (SpecParse)                       *)
(***************************************************************************)
NodeCount == Cardinality(DOMAIN nodes)

\* the repeat count a token is written with
Count(it) == IF it.cnt = NoCount THEN 1 ELSE it.cnt

Plain(it) == ~it.open /\ ~it.close /\ it.cnt = NoCount

\* {[#R0]([#R1]...[#Rk])|M}
BranchForm(its, k, M) ==
    /\ Len(its) = k + 1
    /\ Plain(its[1])
    /\ \A i \in 2..(k + 1) :
          /\ its[i].cnt = NoCount
          /\ its[i].open <=> (i = 2)
          /\ its[i].close <=> (i = k + 1)
    /\ its[k + 1].bcnt = M

RepeatCounts == BranchCounts \ {NoCount}

\* C3 as stated: {[#R0]([#R1]...[#Rk])|M} yields 1 + M*(k+1) nodes.
C3_AsStated ==
    \A k \in 1..(MaxTokens - 1), M \in RepeatCounts :
        (pc = "done" /\ BranchForm(items, k, M)) => NodeCount = 1 + M * (k + 1)

\* C3 amended: {[#R0]([#R1]...[#Rk])|M} is parsed without error into
\* (k+1) + M*(k+1) nodes: the anchor and the branch as written, then M replays
\* of anchor and branch; {[#PMA]([#PEO][#PEO])|3} yields 12 nodes.
C3_BranchNodeCount ==
    \A k \in 1..(MaxTokens - 1), M \in RepeatCounts :
        BranchForm(items, k, M) =>
            /\ pc # "error"
            /\ pc = "done" => NodeCount = (k + 1) + M * (k + 1)

C3_Witness == pc = "done" /\ BranchForm(items, 2, 3) /\ NodeCount = 12

NoBranch(its) == \A i \in 1..Len(its) : ~its[i].open /\ ~its[i].close

RECURSIVE Copies(_, _)
Copies(name, n) == IF n = 0 THEN << >> ELSE <<name>> \o Copies(name, n - 1)

\* the residue names of the chain the first n tokens describe
RECURSIVE ChainNames(_, _)
ChainNames(its, n) ==
    IF n = 0 THEN << >>
    ELSE ChainNames(its, n - 1) \o Copies(TokenName(n), Count(its[n]))

\* C4: a sequence without branches is parsed into a path: as many nodes as the
\* repeat counts sum to, node i named after the token that produced it, and
\* exactly the edges (i-1, i).
C4_PathGraph ==
    NoBranch(items) =>
        /\ pc # "error"
        /\ pc = "done" =>
              LET names == ChainNames(items, Len(items))
              IN  /\ DOMAIN nodes = 0..(Len(names) - 1)
                  /\ \A i \in DOMAIN nodes : nodes[i] = names[i + 1]
                  /\ edges = {{i - 1, i} : i \in 1..(Len(names) - 1)}

C4_Witness ==
    /\ pc = "done"
    /\ NoBranch(items)
    /\ Len(items) = 3
    /\ items[1].cnt = 11 /\ items[2].cnt = NoCount /\ items[3].cnt = 0
    /\ NodeCount = 12

\* a pattern of the grammar: branches are opened after a residue, closed, and
\* not nested
RECURSIVE Balanced(_, _, _)
Balanced(its, i, inBranch) ==
    IF i > Len(its) THEN ~inBranch
    ELSE /\ its[i].open => (~inBranch /\ i > 1)
         /\ its[i].close => (inBranch \/ its[i].open)
         /\ Balanced(its, i + 1, (inBranch \/ its[i].open) /\ ~its[i].close)

\* C5: a residue token with repeat count 0 adds no node and no edge, leaves
\* prev_node and the next id unchanged, and does not raise.
C5_ZeroCount ==
    [][ (pc = "scan" /\ tok' = tok + 1 /\ Balanced(items, 1, FALSE)
            /\ items[tok + 1].cnt = 0)
        => /\ pc' = "add" /\ n_left' = 0
           /\ nodes' = nodes /\ edges' = edges
           /\ prev_node' = prev_node /\ current' = current ]_vars

\* a "(" written while an earlier branch is still open
NestedOpen(its) ==
    \E i, j \in 1..Len(its) :
        /\ i < j
        /\ its[i].open /\ its[j].open
        /\ \A m \in i..(j - 1) : ~its[m].close

\* C6: a pattern that opens a branch inside an open branch is rejected with an
\* error; no graph is returned for it.
C6_NestedRejected == NestedOpen(items) => pc # "done"

\* the nodes reachable from the nodes of seen
RECURSIVE Reach(_)
Reach(seen) ==
    LET more == {n \in DOMAIN nodes : \E m \in seen : {m, n} \in edges}
    IN  IF more \subseteq seen THEN seen ELSE Reach(seen \cup more)

Connected == DOMAIN nodes = {} \/ Reach({0}) = DOMAIN nodes

\* identifiers 0..current-1 without gap, prev_node None or a node, every edge
\* joins a node to one created earlier, one such edge per node after the first
IdsAndEdges ==
    /\ DOMAIN nodes = 0..(current - 1)
    /\ prev_node = None \/ prev_node \in DOMAIN nodes
    /\ \A e \in edges : \E a, b \in DOMAIN nodes : a < b /\ e = {a, b}
    /\ \A b \in DOMAIN nodes :
          Cardinality({a \in DOMAIN nodes : a < b /\ {a, b} \in edges})
              = IF b = 0 THEN 0 ELSE 1

\* C7 as stated: the identifiers are 0..current-1, prev_node is None or a
\* node, edges join a node to an earlier one, and the finished graph is a tree
\* (connected, edge count = node count - 1).
C7_AsStated ==
    /\ IdsAndEdges
    /\ pc = "done" => (Connected /\ Cardinality(edges) = NodeCount - 1)

\* C7 amended: as stated, the tree property holding of every finished graph
\* that has at least one node; a pattern whose counts are all 0 returns the
\* empty graph (0 nodes, 0 edges).
C7_IdsAndTree ==
    /\ IdsAndEdges
    /\ (pc = "done" /\ NodeCount > 0) =>
           (Connected /\ Cardinality(edges) = NodeCount - 1)
    /\ (pc = "done" /\ NodeCount = 0) => edges = {}

C7_Witness ==
    /\ pc = "done"
    /\ NodeCount >= 6
    /\ \E i \in 1..Len(items) : items[i].close /\ items[i].bcnt = 3
    /\ \E e \in edges : \E a, b \in DOMAIN nodes : e = {a, b} /\ b > a + 1

\* the number of nodes one replay of the recipe adds
RECURSIVE RecipeNodes(_, _)
RecipeNodes(rec, n) == IF n = 0 THEN 0 ELSE RecipeNodes(rec, n - 1) + rec[n][2]

ReplaySize == RecipeNodes(recipie, Len(recipie))

\* M, the count written after the branch close the replay runs for
ReplayCount == PyInt(BranchCountText(pattern, stop))

\* a node is about to be added by the replay; it is the first node of a replay
\* when it is added for the first entry of the recipe
ReplayAdds == pc = "replay" /\ n_left > 0
FirstOfReplay == ReplayAdds /\ bdx = 1

\* the last replay is complete
ReplayEnds == pc = "replay" /\ n_left = 0 /\ bdx = Len(recipie) /\ rep_left = 1

\* the first node of replay j of M, seen when the last replay is complete
FirstNodeOf(j) == current - (ReplayCount - j + 1) * ReplaySize

\* C17 as stated: the first node of every replay is connected to the branch
\* anchor, the other nodes of a replay to the node added before them.
C17_AsStated ==
    [][ReplayAdds =>
          edges' = edges \cup
              {{IF FirstOfReplay THEN branch_anchor ELSE current - 1, current}}]_vars

\* C17 amended: the recipe is replayed M times; the first node of the first
\* replay, a copy of the anchor residue, is connected to the branch anchor, the
\* first node of every later replay to the first node of the replay before it,
\* and the other nodes of a replay chain from that replay's first node.
C17_ReplayChain ==
    [][/\ ReplayAdds =>
            LET target ==
                    IF ~FirstOfReplay THEN current - 1
                    ELSE IF rep_left = ReplayCount THEN branch_anchor
                    ELSE current - ReplaySize
            IN  /\ edges' = edges \cup {{target, current}}
                /\ FirstOfReplay => nodes' = AddNode(nodes, current, nodes[branch_anchor])
       /\ ReplayEnds =>
            /\ FirstNodeOf(1) > branch_anchor
            /\ {branch_anchor, FirstNodeOf(1)} \in edges
            /\ \A j \in 2..ReplayCount : {FirstNodeOf(j - 1), FirstNodeOf(j)} \in edges
            /\ \A j \in 1..ReplayCount :
                  \A n \in (FirstNodeOf(j) + 1)..(FirstNodeOf(j) + ReplaySize - 1) :
                      {n - 1, n} \in edges]_vars

\* {[#PMA]([#PEO][#PS])|3} is parsed: the replays start at the nodes 3, 6, 9
C17_Witness ==
    /\ pc = "done"
    /\ BranchForm(items, 2, 3)
    /\ {{0, 3}, {3, 6}, {6, 9}, {3, 4}, {4, 5}, {9, 10}, {10, 11}} \subseteq edges

\* the token being added follows a token that closed a branch, and the node
\* about to be added is its first
AfterClose ==
    /\ pc = "add" /\ n_left > 0
    /\ Balanced(items, 1, FALSE)
    /\ tok >= 2
    /\ items[tok - 1].close
    /\ n_left = Count(items[tok])

\* C18: a branch close leaves branching mode; after a plain close (no count, or
\* the count 0) the next residue token attaches to the branch anchor; after a
\* close with a count M >= 1 it attaches to the first node of the last replay,
\* which is neither the branch anchor nor the last node created.
C18_Reconnection ==
    [][/\ (pc = "add" /\ n_left = 0 /\ Balanced(items, 1, FALSE) /\ items[tok].close) =>
             ~branching'
       /\ (AfterClose /\ items[tok - 1].bcnt \in {NoCount, 0}) =>
             edges' = edges \cup {{branch_anchor, current}}
       /\ (AfterClose /\ items[tok - 1].bcnt \notin {NoCount, 0}) =>
             /\ edges' = edges \cup {{current - ReplaySize, current}}
             /\ current - ReplaySize \notin {branch_anchor, current - 1}]_vars

\* {[#PMA]([#PEO])|3[#PS]} is parsed: the last replay starts at node 6, and
\* [#PS], node 8, is attached to it
C18_Witness ==
    /\ pc = "done"
    /\ Len(items) = 3
    /\ Plain(items[1])
    /\ items[2].open /\ items[2].close /\ items[2].cnt = NoCount /\ items[2].bcnt = 3
    /\ Plain(items[3])
    /\ {{0, 2}, {2, 4}, {4, 6}, {6, 8}} \subseteq edges
    /\ {7, 8} \notin edges


(***************************************************************************)
(* Properties of Topology.merge and Topology.append_molecules (SpecTop)    *)
(***************************************************************************)
\* result holds exactly the entries of mine and of theirs
IsUnion(result, mine, theirs) ==
    /\ DOMAIN result = (DOMAIN mine) \cup (DOMAIN theirs)
    /\ \A k \in DOMAIN mine : result[k] = mine[k]
    /\ \A k \in DOMAIN theirs : result[k] = theirs[k]

\* the keys both dicts hold, with different values
Differing(mine, theirs) ==
    {k \in (DOMAIN mine) \cap (DOMAIN theirs) : mine[k] # theirs[k]}

AttributeClash(self, other) ==
    \E a \in {"defaults", "defines", "atom_types", "nonbond_params"} :
        Differing(self[a], other[a]) # {}

TypeClash(self, other) ==
    \E t \in (DOMAIN self.types) \cap (DOMAIN other.types) :
        Differing(self.types[t], other.types[t]) # {}

\* the error names a category and a key that differ between self and other
NamesClash(self, other, msg) ==
    \/ /\ msg[1] \in {"defaults", "defines", "atom_types", "nonbond_params"}
       /\ msg[2] \in Differing(self[msg[1]], other[msg[1]])
    \/ \E t \in (DOMAIN self.types) \cap (DOMAIN other.types) :
          /\ msg[1] = TypeString(t)
          /\ msg[2] \in Differing(self.types[t], other.types[t])

\* C8: merge with duplicate checking raises MergeError naming category and key
\* when a key of defaults, defines, atom_types, nonbond_params or of a category
\* of types is in both topologies with different values; otherwise the merge
\* succeeds and each of these maps of self becomes the union of both.
C8_CheckedMerge ==
    [][ (last_op' = "merge" /\ check_duplicates') =>
            IF AttributeClash(top, other_top') \/ TypeClash(top, other_top')
            THEN /\ top_err' = "MergeError"
                 /\ NamesClash(top, other_top', err_msg')
            ELSE /\ top_err' = "none"
                 /\ \A a \in {"defaults", "defines", "atom_types", "nonbond_params"} :
                       IsUnion(top'[a], top[a], other_top'[a])
                 /\ DOMAIN top'.types = (DOMAIN top.types) \cup (DOMAIN other_top'.types)
                 /\ \A t \in DOMAIN top'.types :
                       IsUnion(top'.types[t], Get(top.types, t), Get(other_top'.types, t))
      ]_vars

\* C9: a merge of a topology that holds distance restraints raises no error on
\* their account, and afterwards self holds every restraint of other.
C9_RestraintsMerged ==
    (last_op = "merge" /\ DOMAIN other_top.distance_restraints # {}
        /\ top_err # "MergeError") =>
        /\ top_err = "none"
        /\ \A k \in DOMAIN other_top.distance_restraints :
              /\ k \in DOMAIN top.distance_restraints
              /\ \A pair \in DOMAIN other_top.distance_restraints[k] :
                    /\ pair \in DOMAIN top.distance_restraints[k]
                    /\ top.distance_restraints[k][pair]
                           = other_top.distance_restraints[k][pair]

Positions == 0..(Len(top.molecules) - 1)

Listed(n) == IF n \in DOMAIN top.mol_idx_by_name THEN top.mol_idx_by_name[n] ELSE << >>

\* mol_idx_by_name lists position i under name n exactly when molecules[i] was
\* added under n, lists every position once, each list in increasing order
IndexExact ==
    /\ Len(added_as) = Len(top.molecules)
    /\ \A n \in DOMAIN top.mol_idx_by_name :
          LET idxs == top.mol_idx_by_name[n]
          IN  /\ \A j \in 1..Len(idxs) : idxs[j] \in Positions /\ added_as[idxs[j] + 1] = n
              /\ \A j \in 1..(Len(idxs) - 1) : idxs[j] < idxs[j + 1]
    /\ \A i \in Positions :
          /\ Cardinality({j \in 1..Len(Listed(added_as[i + 1])) :
                             Listed(added_as[i + 1])[j] = i}) = 1
          /\ \A n \in DOMAIN top.mol_idx_by_name :
                n # added_as[i + 1] =>
                    \A j \in 1..Len(top.mol_idx_by_name[n]) :
                        top.mol_idx_by_name[n][j] # i

\* a merge leaves the molecules alone or appends other's, in order, after
\* self's; a merge that raises nothing appends them
MergeAppends ==
    last_op' = "merge" =>
        /\ \/ top'.molecules = top.molecules
           \/ top'.molecules = top.molecules \o other_top'.molecules
        /\ top_err' = "none" => top'.molecules = top.molecules \o other_top'.molecules

\* C10: after any sequence of append_molecules and merge calls mol_idx_by_name
\* is an exact index of molecules, and merge appends other's molecules in
\* their order after self's.
C10_MoleculeIndex == [][IndexExact' /\ MergeAppends]_vars

C10_Witness ==
    /\ last_op = "merge"
    /\ top_err = "none"
    /\ Len(other_top.molecules) = 2
    /\ Len(top.molecules) = 3
    /\ added_as[1] # top.molecules[1].mol_name
    /\ "b" \in DOMAIN top.mol_idx_by_name
    /\ top.mol_idx_by_name["b"] = <<0, 2>>

\* the categories merge walks through, in its order
Categories == <<"defaults", "defines", "atom_types", "nonbond_params">>

\* the fields merge writes after the categories
LaterFields == {"description", "persistences", "molecules", "mol_idx_by_name", "types"}

\* the merge of this step raised MergeError for the c-th category
ConflictIn(c) ==
    /\ last_op' = "merge"
    /\ top_err' = "MergeError"
    /\ err_msg'[1] = Categories[c]

\* C20: when merge raises MergeError for a conflict in category c, self's map
\* for c and for every later category and self's description, persistences,
\* molecules, mol_idx_by_name and types are as before the call, and every
\* category before c holds self's and all of other's entries; no entry of c is
\* written before the check of c has ended.
C20_PartialMerge ==
    [][\A c \in 1..Len(Categories) :
          ConflictIn(c) =>
              /\ \A a \in c..Len(Categories) : top'[Categories[a]] = top[Categories[a]]
              /\ \A f \in LaterFields : top'[f] = top[f]
              /\ \A a \in 1..(c - 1) :
                    IsUnion(top'[Categories[a]], top[Categories[a]],
                            other_top'[Categories[a]])]_vars

\* a merge that gave self an entry of defines and one of atom_types is followed
\* by a merge that brings defaults and a conflicting entry of defines: the
\* error leaves self with other's defaults
C20_Witness ==
    /\ last_op = "merge"
    /\ ops = 2
    /\ top_err = "MergeError"
    /\ err_msg[1] = "defines"
    /\ DOMAIN top.atom_types # {}
    /\ DOMAIN other_top.defaults # {}
    /\ DOMAIN other_top.atom_types = {}
    /\ DOMAIN top.defaults = DOMAIN other_top.defaults
    /\ err_msg[2] \in Differing(top.defines, other_top.defines)


(***************************************************************************)
(* Properties of the merge order (SpecOrder)                               *)
(***************************************************************************)
\* C11 as stated: when A then B merge into T without error, B then A do so
\* too, and both orders leave T in the same state.
C11_AsStated ==
    (top_pc = "done" /\ top_err = "none") =>
        /\ err_ba = "none"
        /\ top_ba = top

DictFields == {"defaults", "defines", "atom_types", "nonbond_params", "types",
               "distance_restraints"}

ListFields == {"description", "persistences", "molecules"}

\* the positions (0-based) listed under name n are those of the molecules
\* called n
IndexByMolName(t) ==
    /\ DOMAIN t.mol_idx_by_name = {t.molecules[i].mol_name : i \in 1..Len(t.molecules)}
    /\ \A n \in DOMAIN t.mol_idx_by_name :
          /\ {t.mol_idx_by_name[n][j] : j \in 1..Len(t.mol_idx_by_name[n])}
                 = {i - 1 : i \in {k \in 1..Len(t.molecules) : t.molecules[k].mol_name = n}}
          /\ \A j \in 1..(Len(t.mol_idx_by_name[n]) - 1) :
                t.mol_idx_by_name[n][j] < t.mol_idx_by_name[n][j + 1]

\* C11: when A then B merge into T without error, B then A do so too; both
\* orders leave the same defaults, defines, atom_types, nonbond_params, types
\* and distance_restraints, while description, persistences and molecules
\* hold T's entries followed by those of the two topologies in the order of
\* the merges, and mol_idx_by_name indexes the molecules in that order.
C11_SameMapsOrderedLists ==
    (top_pc = "done" /\ top_err = "none") =>
        /\ err_ba = "none"
        /\ IndexByMolName(top) /\ IndexByMolName(top_ba)
        /\ \A f \in DictFields : top_ba[f] = top[f]
        /\ \A f \in ListFields :
              /\ top[f] = top_start[f] \o first_top[f] \o other_top[f]
              /\ top_ba[f] = top_start[f] \o other_top[f] \o first_top[f]

C11_Witness ==
    /\ top_pc = "done" /\ ops = 4 /\ top_err = "none" /\ err_ba = "none"
    /\ top_start.atom_types # EmptyDict
    /\ first_top.molecules = <<Molecule("a")>>
    /\ other_top.molecules = <<Molecule("b")>>
    /\ top.molecules = <<Molecule("a"), Molecule("b")>>
    /\ top_ba.molecules = <<Molecule("b"), Molecule("a")>>


(***************************************************************************)
(* Properties of Topology.preprocess (SpecPrep)                            *)
(***************************************************************************)
GenPairsStep == top_pc = "gen_pairs" /\ top_pc' # "gen_pairs"

\* C12: gen_pairs keeps every key that nonbond_params held before the call,
\* with the same nb1 and nb2, for every gen-pairs flag and combination rule,
\* and does not modify atom_types.
C12_NeverOverwrites ==
    [][GenPairsStep =>
          /\ \A key \in DOMAIN top.nonbond_params :
                /\ key \in DOMAIN top'.nonbond_params
                /\ top'.nonbond_params[key].nb1 = top.nonbond_params[key].nb1
                /\ top'.nonbond_params[key].nb2 = top.nonbond_params[key].nb2
          /\ top'.atom_types = top.atom_types
      ]_vars

\* gen_pairs has run with the flag "yes" on two atom types whose generated
\* pair and own values differ from the authored entries that are kept
C12_Witness ==
    /\ top_pc = "replace_defines"
    /\ top.defaults["gen-pairs"] = "yes"
    /\ DOMAIN top.atom_types = {"A1", "A2"}
    /\ top.atom_types["A1"].nb1 = Num(2) /\ top.atom_types["A1"].nb2 = Num(8)
    /\ top.atom_types["A2"].nb1 = Num(8) /\ top.atom_types["A2"].nb2 = Num(2)
    /\ DOMAIN top.nonbond_params = {{"A1"}, {"A2"}, {"A1", "A2"}}
    /\ top.nonbond_params[{"A1", "A2"}] = [nb1 |-> Num(8), nb2 |-> Num(8)]
    /\ top.nonbond_params[{"A1"}] = [nb1 |-> Num(2), nb2 |-> Num(2)]

SelfPairs(atom_types) == {{A} : A \in DOMAIN atom_types}

DistinctPairs(atom_types) ==
    {{A, B} : A \in DOMAIN atom_types, B \in DOMAIN atom_types} \ SelfPairs(atom_types)

\* C13: after gen_pairs has returned, the keys of nonbond_params are the keys
\* held before, a self pair for every atom type, and, exactly when the
\* gen-pairs flag is "yes", a key for every unordered pair of distinct atom
\* types; an entry held before for {A, B} is the entry afterwards.
C13_KeySet ==
    [][(GenPairsStep /\ top_err' = "none") =>
          /\ DOMAIN top'.nonbond_params =
                 (DOMAIN top.nonbond_params) \cup SelfPairs(top.atom_types)
                 \cup (IF top.defaults["gen-pairs"] = "yes"
                       THEN DistinctPairs(top.atom_types) ELSE {})
          /\ \A key \in (DOMAIN top.nonbond_params) \cap DistinctPairs(top.atom_types) :
                top'.nonbond_params[key] = top.nonbond_params[key]
      ]_vars

\* gen_pairs has returned with the flag "no" for two atom types: the self
\* pairs are there, the pair is not
C13_Witness ==
    /\ top_pc = "replace_defines"
    /\ top.defaults["gen-pairs"] = "no"
    /\ DOMAIN top.atom_types = {"A1", "A2"}
    /\ DOMAIN top.nonbond_params = {{"A1"}, {"A2"}}


GenBondedStep == top_pc = "gen_bonded_interactions" /\ top_pc' # "gen_bonded_interactions"

\* the interactions of the blocks, as <<block, interaction type, interaction>>
InteractionsOf(blks) ==
    UNION {UNION {{<<b, g, i>> : i \in 1..Len(blks[b].interactions[g].list)}
                     : g \in 1..Len(blks[b].interactions)}
              : b \in 1..Len(blks)}

At(blks, p) == blks[p[1]].interactions[p[2]].list[p[3]]

CategoryOf(blks, p) == blks[p[1]].interactions[p[2]].inter_type

AtomTypesOf(blks, p) ==
    [i \in 1..Len(At(blks, p).atoms) |-> blks[p[1]].nodes[At(blks, p).atoms[i]]]

\* the tuple looked up: the atom types, or their bond types when _FF_OPLS or
\* _FF_OPLS_AA is defined
KeyTuple(t, blks, p) ==
    IF {"_FF_OPLS", "_FF_OPLS_AA"} \cap DOMAIN t.defines = {}
    THEN AtomTypesOf(blks, p)
    ELSE [i \in 1..Len(AtomTypesOf(blks, p)) |->
             IF AtomTypesOf(blks, p)[i] \in DOMAIN t.atom_types
             THEN t.atom_types[AtomTypesOf(blks, p)[i]].bond_type
             ELSE "none"]

\* the key the parameters are taken from: the tuple, else the reversed
\* tuple, else for dihedrals what the wildcard resolver returns
StoredKey(table, tuple, category) ==
    IF tuple \in DOMAIN table THEN tuple
    ELSE IF [i \in 1..Len(tuple) |-> tuple[Len(tuple) + 1 - i]] \in DOMAIN table
         THEN [i \in 1..Len(tuple) |-> tuple[Len(tuple) + 1 - i]]
    ELSE IF category = "dihedrals"
         THEN match_dihedral_interaction_types(tuple, DOMAIN table)
         ELSE NoKey

\* interaction p has become the stored entry of its key
ResolvedFrom(t, blks, after, p, tuple) ==
    LET table == Get(t.types, CategoryOf(blks, p))
        stored == table[StoredKey(table, tuple, CategoryOf(blks, p))]
    IN  /\ At(after, p).parameters = stored[1]
        /\ At(after, p).atoms = At(blks, p).atoms
        /\ DOMAIN At(after, p).meta = (DOMAIN At(blks, p).meta) \cup (DOMAIN stored[2])
        /\ \A k \in DOMAIN At(after, p).meta :
              At(after, p).meta[k] = IF k \in DOMAIN stored[2] THEN stored[2][k]
                                     ELSE At(blks, p).meta[k]

\* C14 as stated: every interaction with exactly one parameter is resolved
\* from the atom-type tuple, the reversed tuple or, for dihedrals, the
\* wildcard resolver; when one of them has no match an error naming its
\* category and atoms is raised.
C14_AsStated ==
    [][(GenBondedStep /\ top_err' # "KeyError") =>
          LET pending == {p \in InteractionsOf(blocks) : Len(At(blocks, p).parameters) = 1}
              unmatched == {p \in pending :
                               StoredKey(Get(top.types, CategoryOf(blocks, p)),
                                         AtomTypesOf(blocks, p),
                                         CategoryOf(blocks, p)) = NoKey}
          IN  IF unmatched = {}
              THEN /\ top_err' = "none"
                   /\ \A p \in pending :
                         ResolvedFrom(top, blocks, blocks', p, AtomTypesOf(blocks, p))
              ELSE /\ top_err' = "OSError"
                   /\ \E p \in unmatched :
                         err_msg' = <<CategoryOf(blocks, p), At(blocks, p).atoms>>
      ]_vars

\* C14: every interaction with exactly one parameter, of a category other
\* than pairs, exclusions and the virtual sites, is resolved from its key
\* tuple (the atom types, or their bond types under _FF_OPLS), the reversed
\* tuple or, for dihedrals, the wildcard resolver; every other interaction
\* is left as it is; when one of them has no match OSError naming its
\* category and atoms is raised; KeyError is raised only when, under
\* _FF_OPLS, an atom type of such an interaction is not in atom_types.
C14_Resolution ==
    [][GenBondedStep =>
          LET pending == {p \in InteractionsOf(blocks) :
                             /\ Len(At(blocks, p).parameters) = 1
                             /\ CategoryOf(blocks, p) \notin
                                    {"pairs", "exclusions", "virtual_sitesn",
                                     "virtual_sites2", "virtual_sites3", "virtual_sites4"}}
              untyped == {p \in pending :
                             /\ {"_FF_OPLS", "_FF_OPLS_AA"} \cap DOMAIN top.defines # {}
                             /\ \E i \in 1..Len(AtomTypesOf(blocks, p)) :
                                   AtomTypesOf(blocks, p)[i] \notin DOMAIN top.atom_types}
              unmatched == {p \in pending :
                               StoredKey(Get(top.types, CategoryOf(blocks, p)),
                                         KeyTuple(top, blocks, p),
                                         CategoryOf(blocks, p)) = NoKey}
          IN  IF top_err' = "KeyError" THEN untyped # {}
              ELSE IF unmatched = {}
              THEN /\ top_err' = "none"
                   /\ InteractionsOf(blocks') = InteractionsOf(blocks)
                   /\ \A p \in InteractionsOf(blocks) :
                         IF p \in pending
                         THEN ResolvedFrom(top, blocks, blocks', p, KeyTuple(top, blocks, p))
                         ELSE At(blocks', p) = At(blocks, p)
              ELSE /\ top_err' = "OSError"
                   /\ \E p \in unmatched :
                         err_msg' = <<CategoryOf(blocks, p), At(blocks, p).atoms>>
      ]_vars

\* gen_bonded_interactions has returned: a bond resolved from the reversed
\* tuple with the stored metadata merged into its own, a dihedral resolved by
\* the wildcard resolver, and a pair left with its single parameter
C14_Witness ==
    /\ top_pc = "convert"
    /\ Len(blocks[1].interactions) = 3
    /\ blocks[1].interactions[1].list =
           <<Interaction(<<1, 0>>, <<"1", "0.47", "1000">>,
                         Put(Dict1("ifdef", "X"), "comment", "c"))>>
    /\ blocks[1].interactions[2].list = <<Interaction(<<0, 3>>, <<"1">>, EmptyDict)>>
    /\ blocks[1].interactions[3].list =
           <<Interaction(<<0, 1, 2, 3>>, <<"9", "180", "2">>, EmptyDict)>>
    /\ DOMAIN top.types["dihedrals"] = {<<"X", "A2", "A2", "A2">>}

\* the calls preprocess makes, in the order it makes them
PreprocessOrder ==
    {<<"none", "gen_pairs">>,
     <<"gen_pairs", "replace_defines">>,
     <<"replace_defines", "gen_bonded_interactions">>,
     <<"gen_bonded_interactions", "convert_nonbond_to_sig_eps">>}

\* no parameter of an interaction of blks is the name of a define
DefinesExpanded(self, blks) ==
    \A p \in InteractionsOf(blks) :
        \A i \in 1..Len(At(blks, p).parameters) :
            At(blks, p).parameters[i] \notin DOMAIN self.defines

\* every entry of nonbond_params after the step is the converted entry before it
AllConverted ==
    top'.nonbond_params =
        [k \in DOMAIN top.nonbond_params |-> SigEps(top.nonbond_params[k])]

\* C19: preprocess calls gen_pairs, replace_defines, gen_bonded_interactions in
\* this order, so the defines are expanded when the bonded types are looked up;
\* convert_nonbond_to_sig_eps runs last, if and only if comb-rule is 1, once,
\* and converts every entry of nonbond_params; with comb-rule 2 or 3 the
\* entries are left as they are.
C19_StepOrder ==
    [][/\ last_op' # last_op => <<last_op, last_op'>> \in PreprocessOrder
       /\ top_pc = "gen_bonded_interactions" =>
             last_op' = "gen_bonded_interactions" /\ DefinesExpanded(top, blocks)
       /\ top_pc = "convert" =>
             IF top.defaults["comb-rule"] = 1
             THEN /\ last_op' = "convert_nonbond_to_sig_eps"
                  /\ AllConverted
                  /\ top_pc' = "done"
             ELSE /\ last_op' = last_op
                  /\ top'.nonbond_params = top.nonbond_params
                  /\ top_pc' = "done"
       /\ top_pc \notin {"gen_pairs", "convert"} =>
             top'.nonbond_params = top.nonbond_params]_vars

\* the sigma-epsilon form of an entry when a zero divisor gives 0: sigma
\* divides by nb1, epsilon divides by nb2
GuardedSigEps(entry) ==
    [nb1 |-> IF entry.nb1 # Num(0) THEN <<"sig", entry.nb1[1], entry.nb2[1]>> ELSE Num(0),
     nb2 |-> IF entry.nb2 # Num(0) THEN <<"eps", entry.nb1[1], entry.nb2[1]>> ELSE Num(0)]

\* C21: convert_nonbond_to_sig_eps raises no division-by-zero error, whatever
\* entries of nonbond_params have nb1 or nb2 equal to 0: the sigma or epsilon
\* that would divide by zero is 0, and every key is kept with its converted
\* value.
C21_NoDivisionByZero ==
    [][(top_pc = "convert" /\ top.defaults["comb-rule"] = 1) =>
          /\ top_err' = "none"
          /\ top'.nonbond_params =
                [k \in DOMAIN top.nonbond_params |->
                    GuardedSigEps(top.nonbond_params[k])]]_vars

(***************************************************************************)
(* Properties of tokenize_big_smile (SpecTok)                              *)
(***************************************************************************)
\* every "[" of s is closed by a "]" before the next "[", and no "]" is stray
WellFormedBrackets(s) ==
    /\ \A p \in 0..(Len(s) - 1) :
          s[p + 1] = "[" =>
              LET c == PyFind(s, "]", p + 1)
              IN  c # -1 /\ \A q \in (p + 1)..(c - 1) : s[q + 1] # "["
    /\ \A p \in 0..(Len(s) - 1) :
          s[p + 1] = "]" =>
              \E q \in 0..(p - 1) :
                  s[q + 1] = "[" /\ \A r \in (q + 1)..(p - 1) : s[r + 1] # "]"

\* position p of s lies after a "[" that is not closed before p
InBracket(s, p) ==
    \E q \in 0..(p - 1) : s[q + 1] = "[" /\ \A r \in (q + 1)..(p - 1) : s[r + 1] # "]"

ElementLetters == {"C", "O"}

\* an atom token of s starts at position p: a bracket atom or a bare element
AtomStart(s, p) ==
    \/ s[p + 1] = "[" /\ p + 1 < Len(s) /\ s[p + 2] \notin DescriptorStarts
    \/ s[p + 1] \in ElementLetters /\ ~InBracket(s, p)

\* the number of atom tokens of s that start in a..b-1
AtomsIn(s, a, b) == Cardinality({p \in a..(b - 1) : AtomStart(s, p)})

\* a bonding descriptor starts at position p of s
DescriptorAt(s, p) ==
    s[p + 1] = "[" /\ p + 1 < Len(s) /\ s[p + 2] \in DescriptorStarts

\* an atom token precedes position p, with no ")" between it and p
FollowsAtom(s, p) ==
    \E a \in 0..(p - 1) :
        /\ AtomStart(s, a)
        /\ \A r \in (a + 1)..(p - 1) : ~AtomStart(s, r) /\ s[r + 1] # ")"

\* C15: node_count advances only when an atom token is emitted (bond symbols,
\* the closing "]" of a bracket atom, ring-closure digits and other punctuation
\* leave it unchanged), so a bonding descriptor that follows an atom is stored
\* under the zero-based index of the atom emitted most recently before it.
C15_CounterOnAtomsOnly ==
    [][(tk_pc = "loop" /\ tk_pos < Len(big_smile) /\ WellFormedBrackets(big_smile)) =>
          /\ node_count' - node_count = AtomsIn(big_smile, tk_pos, tk_pos')
          /\ (DescriptorAt(big_smile, tk_pos) /\ FollowsAtom(big_smile, tk_pos)) =>
                bonding_descrpt' =
                    Put(bonding_descrpt, AtomsIn(big_smile, 0, tk_pos) - 1,
                        PySlice(big_smile, tk_pos + 1, tk_pos' - 1))]_vars

\* the number of characters ch of s in a..b-1
CountIn(s, ch, a, b) == Cardinality({p \in a..(b - 1) : s[p + 1] = ch})

\* the positions of the "(" that the ")" at position p of s can close
OpensBefore(s, p) ==
    {q \in 0..(p - 1) :
        s[q + 1] = "(" /\ CountIn(s, "(", q + 1, p) = CountIn(s, ")", q + 1, p)}

\* the "(" matching the ")" at position p of s
MatchingOpen(s, p) ==
    CHOOSE q \in OpensBefore(s, p) : \A r \in OpensBefore(s, p) : r <= q

\* C16: the pointer to the current atom is saved at "(" and restored at the
\* matching ")", nested branches included: right after a ")" the pointer is the
\* atom that was current at the "(" this ")" closes.
C16_RestoredAtMatchingClose ==
    [][(/\ tk_pc = "loop" /\ tk_pos < Len(big_smile) /\ token = ")"
        /\ WellFormedBrackets(big_smile)
        /\ OpensBefore(big_smile, tk_pos) # {}) =>
          /\ tk_err' = "none"
          /\ tk_prev_node' = ptr_trace[MatchingOpen(big_smile, tk_pos) + 1]]_vars
====
